---- MODULE Spec2Model ----
(***************************************************************************)
(* Model of the station-line derivation pipeline of                        *)
(* build-station-lines.mjs: pre-flight check of the four GTFS files, the   *)
(* three reference-table loaders, the stop_times aggregation pass, the     *)
(* output assembly (dedup + sort) and the final write; and of the two      *)
(* scripts that enrich its output, build-stations-ui-from-files.mjs and    *)
(* merge-boroughs-into-stations-ui.mjs.                                    *)
(*                                                                         *)
(* Strings are TLA+ strings; "" stands for a blank or absent CSV field     *)
(* (both are falsy in the source).  Chars gives the characters of the      *)
(* strings the comparators look into.                                      *)
(***************************************************************************)
EXTENDS Integers, Sequences, FiniteSets, TLC

VARIABLES
    pc,            \* position of the program
    existing,      \* the files present in GTFS_DIR
    ONLY_SUBWAY,   \* the --only-subway flag
    lastRow,       \* the row the running for-await loop is on, NoRow outside
    stopsRead,     \* the stops.txt rows streamed so far (history)
    stopToStation, \* Map stop_id -> station_id
    stationName,   \* Map station_id -> name
    routeMap,      \* Map route_id -> {shortName, routeType}
    tripToRoute,   \* Map trip_id -> route_id
    stopTimesRead, \* the stop_times.txt rows streamed so far (history)
    rows,          \* counters of buildStationLines
    missedTrips,
    missedStops,
    stationRoutes, \* Map station_id -> Set(route_id), in insertion order
    stations,      \* the array returned by buildStationLines
    outFile,       \* the contents written to OUT_FILE, one per write
    stderr,        \* console.error calls
    exitCode,      \* the exit code of the process, Running until it ends
    uiFile,        \* the contents written to stations-ui.json, one per write
    request,       \* the GET /mta request the server has, with the feeds fetched
    response       \* the response to it, NoResponse until the handler has run

\* The file of the two enrichment scripts.
uiVars == <<uiFile>>

\* The state of the departure server of src/index.js.
mtaVars == <<request, response>>

vars == <<pc, existing, ONLY_SUBWAY, lastRow, stopsRead, stopToStation,
          stationName, routeMap, tripToRoute, stopTimesRead, rows, missedTrips,
          missedStops, stationRoutes, stations, outFile, stderr, exitCode,
          uiFile, request, response>>

\* ------------------------------------------------------------------------
\* Bounds
MaxStops == 2
MaxStopTimes == 2

Running == -1

\* No request has come in, and no response has gone out.
NoRequest == [path |-> ""]
NoResponse == [status |-> 0]

\* The loop variable outside the loops.
NoRow == [eof |-> TRUE]

\* ------------------------------------------------------------------------
\* Strings and the two localeCompare comparators

Chars(s) ==
    CASE s = ""          -> <<>>
      [] s = "1"         -> <<"1">>
      [] s = "2"         -> <<"2">>
      [] s = "10"        -> <<"1", "0">>
      [] s = " "         -> <<" ">>
      [] s = "q"         -> <<"q">>
      [] s = "A"         -> <<"A">>
      [] s = "a"         -> <<"a">>
      [] s = "Q"         -> <<"Q">>
      [] s = "B"         -> <<"B">>
      [] s = "101"       -> <<"1", "0", "1">>
      [] s = "101N"      -> <<"1", "0", "1", "N">>
      [] s = "20"        -> <<"2", "0">>
      [] s = "Grand Ave" -> <<"G", "r", "a", "n", "d", " ", "A", "v", "e">>
      [] s = "grand ave" -> <<"g", "r", "a", "n", "d", " ", "a", "v", "e">>
      [] s = "Astor Pl"  -> <<"A", "s", "t", "o", "r", " ", "P", "l">>
      [] s = "Uptown"    -> <<"U", "p", "t", "o", "w", "n">>
      [] s = "101S"      -> <<"1", "0", "1", "S">>
      [] s = "grand  ave" -> <<"g", "r", "a", "n", "d", " ", " ", "a", "v", "e">>
      [] s = "Queens"    -> <<"Q", "u", "e", "e", "n", "s">>
      [] s = "Bronx"     -> <<"B", "r", "o", "n", "x">>
      [] s = "Unknown"   -> <<"U", "n", "k", "n", "o", "w", "n">>
      [] s = "\"20\""    -> <<"\"", "2", "0", "\"">>

Digits == <<"0", "1", "2", "3", "4", "5", "6", "7", "8", "9">>
Lower == <<"a", "b", "c", "d", "e", "f", "g", "h", "i", "j", "k", "l", "m",
           "n", "o", "p", "q", "r", "s", "t", "u", "v", "w", "x", "y", "z">>
Upper == <<"A", "B", "C", "D", "E", "F", "G", "H", "I", "J", "K", "L", "M",
           "N", "O", "P", "Q", "R", "S", "T", "U", "V", "W", "X", "Y", "Z">>

\* White space and the punctuation of the display names, in collation order.
Punct == <<" ", ",", "\"", "(", ")">>

IndexOf(seq, c) == CHOOSE i \in DOMAIN seq : seq[i] = c
IsDigit(c) == \E i \in DOMAIN Digits : Digits[i] = c
DigitVal(c) == IndexOf(Digits, c) - 1
IsUpper(c) == \E i \in DOMAIN Upper : Upper[i] = c
IsLower(c) == \E i \in DOMAIN Lower : Lower[i] = c
IsPunct(c) == \E i \in DOMAIN Punct : Punct[i] = c

\* Primary collation weight of one character, as <<class, rank>>: white
\* space and punctuation sort before digits, digits before letters, and the
\* two cases of a letter share one weight (sensitivity "base").
Primary(c) ==
    IF IsPunct(c) THEN <<0, IndexOf(Punct, c) - 1>>
    ELSE IF IsDigit(c) THEN <<1, DigitVal(c)>>
    ELSE IF IsUpper(c) THEN <<2, IndexOf(Upper, c)>>
    ELSE <<2, IndexOf(Lower, c)>>

RECURSIVE RunLen(_)
RunLen(cs) == IF cs # <<>> /\ IsDigit(Head(cs)) THEN 1 + RunLen(Tail(cs)) ELSE 0

RECURSIVE NumVal(_)
NumVal(ds) == IF ds = <<>> THEN 0
              ELSE 10 * NumVal(SubSeq(ds, 1, Len(ds) - 1)) + DigitVal(ds[Len(ds)])

\* The collation key of a character sequence: one <<class, rank>> element
\* per character.  With numeric collation a maximal run of digits is one
\* element, weighted by the numeric value of the run.
RECURSIVE CollationKey(_, _)
CollationKey(cs, numeric) ==
    IF cs = <<>> THEN <<>>
    ELSE IF numeric /\ IsDigit(Head(cs))
         THEN LET n == RunLen(cs)
              IN  <<<<1, NumVal(SubSeq(cs, 1, n))>>>>
                    \o CollationKey(SubSeq(cs, n + 1, Len(cs)), numeric)
    ELSE <<Primary(Head(cs))>> \o CollationKey(Tail(cs), numeric)

RECURSIVE CompareKeys(_, _)
CompareKeys(k1, k2) ==
    IF k1 = <<>> THEN (IF k2 = <<>> THEN 0 ELSE -1)
    ELSE IF k2 = <<>> THEN 1
    ELSE IF Head(k1)[1] # Head(k2)[1]
         THEN (IF Head(k1)[1] < Head(k2)[1] THEN -1 ELSE 1)
    ELSE IF Head(k1)[2] # Head(k2)[2]
         THEN (IF Head(k1)[2] < Head(k2)[2] THEN -1 ELSE 1)
    ELSE CompareKeys(Tail(k1), Tail(k2))

\* a.localeCompare(b, undefined, { numeric, sensitivity: "base" }), for
\* strings of blanks, digits and unaccented letters, which the collations of
\* the locales that follow the root order (en among them) order this way.
LocaleCompare(a, b, numeric) ==
    CompareKeys(CollationKey(Chars(a), numeric), CollationKey(Chars(b), numeric))

\* Array.prototype.sort with a consistent comparator: the stable ordering.
\* cmp[i][j] is the comparator applied to seq[i] and seq[j].
StableSort(seq, cmp) ==
    LET pos(i) == 1 + Cardinality({j \in DOMAIN seq :
                        \/ cmp[j][i] < 0
                        \/ (cmp[j][i] = 0 /\ j < i)})
    IN  [k \in DOMAIN seq |-> seq[CHOOSE i \in DOMAIN seq : pos(i) = k]]

\* Variant that keeps the repeated values.
DedupNone(seq) == seq

\* Array.from(new Set(seq)): the first occurrence of each value, in order.
Dedup(seq) ==
    LET keep == {i \in DOMAIN seq : \A j \in 1..(i - 1) : seq[j] # seq[i]}
        RECURSIVE Pick(_)
        Pick(i) == IF i > Len(seq) THEN <<>>
                   ELSE IF i \in keep THEN <<seq[i]>> \o Pick(i + 1)
                   ELSE Pick(i + 1)
    IN  Pick(1)

\* ------------------------------------------------------------------------
\* Maps

EmptyMap == <<>>
Has(m, k) == k \in DOMAIN m
\* Map.get: undefined, written "", when the key is absent.
Get(m, k) == IF k \in DOMAIN m THEN m[k] ELSE ""
MapSet(m, k, v) == [x \in DOMAIN m \cup {k} |-> IF x = k THEN v ELSE m[x]]
Values(m) == {m[k] : k \in DOMAIN m}
Range(seq) == {seq[i] : i \in DOMAIN seq}

\* ------------------------------------------------------------------------
\* The rows a table reader can deliver

StopIds == {"101", "101N"}
ParentIds == {"101"}
StopNames == {"Grand Ave"}
RouteIds == {"Q", "B"}
RouteTypes == {"1", "3"}
TripIds == {"t1", "t2"}

\* stops.txt: every row with a stop_id, and one row without.
StopRows ==
    [stop_id : StopIds, stop_name : StopNames \cup {""},
     parent_station : ParentIds \cup {""}]
    \cup {[stop_id |-> "", stop_name |-> "Grand Ave", parent_station |-> "101"]}

\* routes.txt
RouteRows ==
    [route_id : RouteIds, route_short_name : {""},
     route_type : RouteTypes \cup {""}]
    \cup {[route_id |-> "", route_short_name |-> "Q", route_type |-> "1"]}

\* trips.txt: trip t1 runs on route Q and trip t2 on route B; two rows lack
\* a field.
TripRows ==
    {[trip_id |-> "t1", route_id |-> "Q"], [trip_id |-> "t2", route_id |-> "B"],
     [trip_id |-> "", route_id |-> "Q"], [trip_id |-> "t1", route_id |-> ""]}

\* stop_times.txt: every row with both fields, and one row without each.
StopTimeRows ==
    [trip_id : TripIds, stop_id : StopIds]
    \cup {[trip_id |-> "", stop_id |-> "101"], [trip_id |-> "t1", stop_id |-> ""]}

\* The rows of the end-to-end runs: one route, with or without its short
\* name, and one trip, so that a stop_times row resolves exactly when
\* trips.txt had a row for the trip.
RunRouteRows ==
    {r \in RouteRows : r.route_id \in {"Q", ""}}
    \cup [route_id : {"Q"}, route_short_name : {"Q"}, route_type : RouteTypes \cup {""}]
RunTripRows == {r \in TripRows : r.trip_id \in {"t1", ""} /\ r.route_id \in {"Q", ""}}
RunStopTimeRows == {r \in StopTimeRows : r.trip_id = "t1" /\ r.stop_id # ""}

SeqsUpTo(S, n) == UNION {[1..k -> S] : k \in 0..n}

\* ------------------------------------------------------------------------
\* Pre-flight check of the required files

required == <<"stops.txt", "routes.txt", "trips.txt", "stop_times.txt">>

\* Variant that reports every missing file before it exits.
PreflightErrorsAll(present) ==
    LET RECURSIVE F(_)
        F(i) == IF i > Len(required) THEN <<>>
                ELSE IF required[i] \notin present
                     THEN <<[kind |-> "Missing", file |-> required[i]]>> \o F(i + 1)
                     ELSE F(i + 1)
    IN  F(1)

\* The console.error calls of the pre-flight loop: the loop exits the
\* process at the first file that does not exist.
PreflightErrors(present) ==
    LET missing == {i \in DOMAIN required : required[i] \notin present}
    IN  IF missing = {} THEN <<>>
        ELSE LET first == CHOOSE i \in missing : \A j \in missing : i <= j
             IN  <<[kind |-> "Missing", file |-> required[first]]>>

Preflight ==
    /\ pc = "required"
    /\ LET errs == PreflightErrors(existing)
       IN  /\ stderr' = stderr \o errs
           /\ IF errs # <<>>
              THEN pc' = "failed" /\ exitCode' = 1
              ELSE pc' = "loadStops" /\ exitCode' = exitCode
    /\ UNCHANGED lastRow
    /\ UNCHANGED uiVars
    /\ UNCHANGED mtaVars
    /\ UNCHANGED <<existing, ONLY_SUBWAY, stopsRead, stopToStation,
                   stationName, routeMap, tripToRoute, stopTimesRead, rows,
                   missedTrips, missedStops, stationRoutes, stations, outFile>>

\* ------------------------------------------------------------------------
\* loadStops

\* Variant that forgets parent_station: every stop is its own station.
StationIdIgnoringParent(stop_id, parent) == stop_id

\* Variant without the fall-back to the stop's own id.
StationIdParentOnly(stop_id, parent) == parent

StationIdOf(stop_id, parent) == IF parent # "" THEN parent ELSE stop_id

\* Variant in which every row sets the name (last write wins).
SetsNameAlways(names, station_id, parent, name) == TRUE

\* Variant in which every named row sets the name, child rows included.
SetsNameAnyNamed(names, station_id, parent, name) ==
    ~Has(names, station_id) \/ name # ""

\* The condition under which a row sets the name of its station.
SetsName(names, station_id, parent, name) ==
    ~Has(names, station_id) \/ (parent = "" /\ name # "")

\* One iteration of the loop over stops.txt on the pair of maps.
StopsStep(m, row) ==
    IF row.stop_id = "" THEN m
    ELSE LET name == row.stop_name
             parent == row.parent_station
             station_id == StationIdOf(row.stop_id, parent)
         IN  [stopToStation |-> MapSet(m.stopToStation, row.stop_id, station_id),
              stationName |->
                  IF SetsName(m.stationName, station_id, parent, name)
                  THEN MapSet(m.stationName, station_id, name)
                  ELSE m.stationName]

LoadStopsRow(row) ==
    /\ pc = "loadStops"
    /\ Len(stopsRead) < MaxStops
    /\   LET m == StopsStep([stopToStation |-> stopToStation,
                             stationName |-> stationName], row)
         IN  /\ stopsRead' = Append(stopsRead, row)
             /\ stopToStation' = m.stopToStation
             /\ stationName' = m.stationName
    /\ lastRow' = row
    /\ UNCHANGED uiVars
    /\ UNCHANGED mtaVars
    /\ UNCHANGED <<pc, existing, ONLY_SUBWAY, routeMap, tripToRoute,
                   stopTimesRead, rows, missedTrips, missedStops,
                   stationRoutes, stations, outFile, stderr, exitCode>>

LoadStopsEnd ==
    /\ pc = "loadStops"
    /\ pc' = "loadRoutes"
    /\ lastRow' = NoRow
    /\ UNCHANGED uiVars
    /\ UNCHANGED mtaVars
    /\ UNCHANGED <<existing, ONLY_SUBWAY, stopsRead, stopToStation,
                   stationName, routeMap, tripToRoute, stopTimesRead, rows,
                   missedTrips, missedStops, stationRoutes, stations, outFile,
                   stderr, exitCode>>

\* ------------------------------------------------------------------------
\* loadRoutes

\* Variant that stores route_short_name as it is, blank or not.
RoutesStepNoDefault(m, row) ==
    IF row.route_id = "" THEN m
    ELSE MapSet(m, row.route_id,
                [shortName |-> row.route_short_name, routeType |-> row.route_type])

RoutesStep(m, row) ==
    IF row.route_id = "" THEN m
    ELSE MapSet(m, row.route_id,
                [shortName |-> IF row.route_short_name # ""
                               THEN row.route_short_name ELSE row.route_id,
                 routeType |-> row.route_type])

LoadRoutesRow(row) ==
    /\ pc = "loadRoutes"
    /\ routeMap' = RoutesStep(routeMap, row)
    /\ lastRow' = row
    /\ UNCHANGED uiVars
    /\ UNCHANGED mtaVars
    /\ UNCHANGED <<pc, existing, ONLY_SUBWAY, stopsRead, stopToStation,
                   stationName, tripToRoute, stopTimesRead, rows, missedTrips,
                   missedStops, stationRoutes, stations, outFile, stderr,
                   exitCode>>

LoadRoutesEnd ==
    /\ pc = "loadRoutes"
    /\ pc' = "loadTrips"
    /\ lastRow' = NoRow
    /\ UNCHANGED uiVars
    /\ UNCHANGED mtaVars
    /\ UNCHANGED <<existing, ONLY_SUBWAY, stopsRead, stopToStation,
                   stationName, routeMap, tripToRoute, stopTimesRead, rows,
                   missedTrips, missedStops, stationRoutes, stations, outFile,
                   stderr, exitCode>>

\* ------------------------------------------------------------------------
\* loadTripsToRoute

TripsStep(m, row) ==
    IF row.trip_id = "" \/ row.route_id = "" THEN m
    ELSE MapSet(m, row.trip_id, row.route_id)

\* Variant in which main does not await the loader: trips.txt is still
\* being read while stop_times.txt is streamed.
LoadTripsRowUnawaited(row) ==
    /\ pc \in {"loadTrips", "buildStationLines"}
    /\ tripToRoute' = TripsStep(tripToRoute, row)
    /\ lastRow' = row
    /\ UNCHANGED uiVars
    /\ UNCHANGED mtaVars
    /\ UNCHANGED <<pc, existing, ONLY_SUBWAY, stopsRead, stopToStation,
                   stationName, routeMap, stopTimesRead, rows, missedTrips,
                   missedStops, stationRoutes, stations, outFile, stderr,
                   exitCode>>

LoadTripsRow(row) ==
    /\ pc = "loadTrips"
    /\ tripToRoute' = TripsStep(tripToRoute, row)
    /\ lastRow' = row
    /\ UNCHANGED uiVars
    /\ UNCHANGED mtaVars
    /\ UNCHANGED <<pc, existing, ONLY_SUBWAY, stopsRead, stopToStation,
                   stationName, routeMap, stopTimesRead, rows, missedTrips,
                   missedStops, stationRoutes, stations, outFile, stderr,
                   exitCode>>

\* Variant whose awaited promise never settles: main stays at loadTrips.
LoadTripsEndPending ==
    /\ pc = "loadTrips"
    /\ UNCHANGED vars

LoadTripsEnd ==
    /\ pc = "loadTrips"
    /\ pc' = "buildStationLines"
    /\ lastRow' = NoRow
    /\ UNCHANGED uiVars
    /\ UNCHANGED mtaVars
    /\ UNCHANGED <<existing, ONLY_SUBWAY, stopsRead, stopToStation,
                   stationName, routeMap, tripToRoute, stopTimesRead, rows,
                   missedTrips, missedStops, stationRoutes, stations, outFile,
                   stderr, exitCode>>

\* ------------------------------------------------------------------------
\* The three loaders run over a whole table

LoadStops(table) ==
    LET RECURSIVE F(_)
        F(n) == IF n = 0
                THEN [stopToStation |-> EmptyMap, stationName |-> EmptyMap]
                ELSE StopsStep(F(n - 1), table[n])
    IN  F(Len(table))

LoadRoutes(table) ==
    LET RECURSIVE F(_)
        F(n) == IF n = 0 THEN EmptyMap ELSE RoutesStep(F(n - 1), table[n])
    IN  F(Len(table))

LoadTrips(table) ==
    LET RECURSIVE F(_)
        F(n) == IF n = 0 THEN EmptyMap ELSE TripsStep(F(n - 1), table[n])
    IN  F(Len(table))

\* ------------------------------------------------------------------------
\* buildStationLines: the pass over stop_times.txt

\* Variant without the unknown-trip check: the undefined route goes on.
OutcomeTripUnchecked(row, trips, stops, routes, onlySubway) ==
    IF row.trip_id = "" \/ row.stop_id = "" THEN "malformed"
    ELSE IF Get(stops, row.stop_id) = "" THEN "missedStop"
    ELSE LET route_id == Get(trips, row.trip_id)
         IN  IF /\ onlySubway
                /\ Has(routes, route_id)
                /\ routes[route_id].routeType # ""
                /\ routes[route_id].routeType # "1"
             THEN "filtered"
             ELSE "insert"

\* Variant whose filter also drops the routes of blank route_type.
OutcomeStrictFilter(row, trips, stops, routes, onlySubway) ==
    IF row.trip_id = "" \/ row.stop_id = "" THEN "malformed"
    ELSE IF Get(trips, row.trip_id) = "" THEN "missedTrip"
    ELSE IF Get(stops, row.stop_id) = "" THEN "missedStop"
    ELSE LET route_id == Get(trips, row.trip_id)
         IN  IF /\ onlySubway
                /\ Has(routes, route_id)
                /\ routes[route_id].routeType # "1"
             THEN "filtered"
             ELSE "insert"

\* Variant that looks the stop up before the trip.
OutcomeStopFirst(row, trips, stops, routes, onlySubway) ==
    IF row.trip_id = "" \/ row.stop_id = "" THEN "malformed"
    ELSE IF Get(stops, row.stop_id) = "" THEN "missedStop"
    ELSE IF Get(trips, row.trip_id) = "" THEN "missedTrip"
    ELSE LET route_id == Get(trips, row.trip_id)
         IN  IF /\ onlySubway
                /\ Has(routes, route_id)
                /\ routes[route_id].routeType # ""
                /\ routes[route_id].routeType # "1"
             THEN "filtered"
             ELSE "insert"

\* What the loop body does with one row: the first check that applies.
Outcome(row, trips, stops, routes, onlySubway) ==
    IF row.trip_id = "" \/ row.stop_id = "" THEN "malformed"
    ELSE IF Get(trips, row.trip_id) = "" THEN "missedTrip"
    ELSE IF Get(stops, row.stop_id) = "" THEN "missedStop"
    ELSE LET route_id == Get(trips, row.trip_id)
         IN  IF /\ onlySubway
                /\ Has(routes, route_id)
                /\ routes[route_id].routeType # ""
                /\ routes[route_id].routeType # "1"
             THEN "filtered"
             ELSE "insert"

\* Variant that never looks the station up: every insertion is a new entry.
AddRouteAlwaysNew(acc, station_id, route_id) ==
    Append(acc, [id |-> station_id, routeIds |-> <<route_id>>])

\* Variant that replaces the set of a station by the new route.
AddRouteReplacing(acc, station_id, route_id) ==
    IF \E i \in DOMAIN acc : acc[i].id = station_id
    THEN [i \in DOMAIN acc |->
            IF acc[i].id = station_id
            THEN [acc[i] EXCEPT !.routeIds = <<route_id>>]
            ELSE acc[i]]
    ELSE Append(acc, [id |-> station_id, routeIds |-> <<route_id>>])

\* stationRoutes.get(station_id) / set / add, keeping insertion order.
AddRoute(acc, station_id, route_id) ==
    IF \E i \in DOMAIN acc : acc[i].id = station_id
    THEN [i \in DOMAIN acc |->
            IF acc[i].id = station_id /\ route_id \notin Range(acc[i].routeIds)
            THEN [acc[i] EXCEPT !.routeIds = Append(@, route_id)]
            ELSE acc[i]]
    ELSE Append(acc, [id |-> station_id, routeIds |-> <<route_id>>])

\* One iteration of the loop on the accumulator and the three counters.
AggStep(a, row, trips, stops, routes, onlySubway) ==
    LET o == Outcome(row, trips, stops, routes, onlySubway)
    IN  [stationRoutes |-> IF o = "insert"
                           THEN AddRoute(a.stationRoutes, Get(stops, row.stop_id),
                                         Get(trips, row.trip_id))
                           ELSE a.stationRoutes,
         rows |-> a.rows + 1,
         missedTrips |-> a.missedTrips + (IF o = "missedTrip" THEN 1 ELSE 0),
         missedStops |-> a.missedStops + (IF o = "missedStop" THEN 1 ELSE 0)]

\* The loop run over a whole table.
Aggregate(table, trips, stops, routes, onlySubway) ==
    LET RECURSIVE F(_)
        F(n) == IF n = 0
                THEN [stationRoutes |-> <<>>, rows |-> 0, missedTrips |-> 0,
                      missedStops |-> 0]
                ELSE AggStep(F(n - 1), table[n], trips, stops, routes, onlySubway)
    IN  F(Len(table))

AggregateRow(row) ==
    /\ pc = "buildStationLines"
    /\ Len(stopTimesRead) < MaxStopTimes
    /\   LET a == AggStep([stationRoutes |-> stationRoutes, rows |-> rows,
                           missedTrips |-> missedTrips,
                           missedStops |-> missedStops],
                          row, tripToRoute, stopToStation, routeMap, ONLY_SUBWAY)
         IN  /\ stopTimesRead' = Append(stopTimesRead, row)
             /\ stationRoutes' = a.stationRoutes
             /\ rows' = a.rows
             /\ missedTrips' = a.missedTrips
             /\ missedStops' = a.missedStops
    /\ lastRow' = row
    /\ UNCHANGED uiVars
    /\ UNCHANGED mtaVars
    /\ UNCHANGED <<pc, existing, ONLY_SUBWAY, stopsRead, stopToStation,
                   stationName, routeMap, tripToRoute, stations, outFile,
                   stderr, exitCode>>

\* ------------------------------------------------------------------------
\* buildStationLines: conversion to the output array

ShortCode(routes, rid) ==
    IF Has(routes, rid) /\ routes[rid].shortName # ""
    THEN routes[rid].shortName ELSE rid

\* Variant without the numeric option.
LineCompareLexical(a, b) == LocaleCompare(a, b, FALSE)

\* Variant that compares the ids of the records.
NameCompareById(a, b) == LocaleCompare(a.id, b.id, FALSE)

LineCompare(a, b) == LocaleCompare(a, b, TRUE)
NameCompare(a, b) == LocaleCompare(a.name, b.name, FALSE)

SortLines(lines) ==
    StableSort(lines, [i \in DOMAIN lines |->
                         [j \in DOMAIN lines |-> LineCompare(lines[i], lines[j])]])
SortStations(recs) ==
    StableSort(recs, [i \in DOMAIN recs |->
                        [j \in DOMAIN recs |-> NameCompare(recs[i], recs[j])]])

LinesOf(routeIds, routes) ==
    LET codes == [i \in DOMAIN routeIds |-> ShortCode(routes, routeIds[i])]
        lines == SelectSeq(codes, LAMBDA c : c # "")
    IN  SortLines(Dedup(lines))

\* Variant that names every station by its id.
NameOfId(names, station_id) == station_id

\* Variant that takes the recorded name as it is.
NameOfRecorded(names, station_id) == Get(names, station_id)

NameOf(names, station_id) ==
    IF Has(names, station_id) /\ names[station_id] # ""
    THEN names[station_id] ELSE station_id

Assemble(acc, names, routes) ==
    SortStations([i \in DOMAIN acc |->
                    [id |-> acc[i].id,
                     name |-> NameOf(names, acc[i].id),
                     lines |-> LinesOf(acc[i].routeIds, routes)]])

\* The lines buildStationLines logs after the loop, as <<message, number>>.
Summary(total, trips, stops) ==
    <<[msg |-> "Processed stop_times total", n |-> total]>>
    \o (IF trips # 0
        THEN <<[msg |-> "Warning: stop_times rows with unknown trip_id", n |-> trips]>>
        ELSE <<>>)
    \o (IF stops # 0
        THEN <<[msg |-> "Warning: stop_times rows with unknown stop_id", n |-> stops]>>
        ELSE <<>>)

\* The line main logs after loadStops.
LoadedStops(m) == <<[msg |-> "Loaded stops", n |-> Cardinality(DOMAIN m)]>>

\* The end of stop_times.txt: the loop ends, the array is built and returned.
StopTimesEnd ==
    /\ pc = "buildStationLines"
    /\ stations' = Assemble(stationRoutes, stationName, routeMap)
    /\ pc' = "writeFileSync"
    /\ lastRow' = NoRow
    /\ UNCHANGED uiVars
    /\ UNCHANGED mtaVars
    /\ UNCHANGED <<existing, ONLY_SUBWAY, stopsRead, stopToStation,
                   stationName, routeMap, tripToRoute, stopTimesRead, rows,
                   missedTrips, missedStops, stationRoutes, outFile, stderr,
                   exitCode>>

\* Variant that also writes the stations gathered so far while
\* stop_times.txt is still being streamed.
WriteOutputEarly ==
    /\ pc \in {"buildStationLines", "writeFileSync"}
    /\ Len(outFile) < 2
    /\ outFile' = Append(outFile, IF pc = "writeFileSync" THEN stations
                                  ELSE Assemble(stationRoutes, stationName, routeMap))
    /\ pc' = IF pc = "writeFileSync" THEN "done" ELSE pc
    /\ exitCode' = IF pc = "writeFileSync" THEN 0 ELSE exitCode
    /\ UNCHANGED lastRow
    /\ UNCHANGED uiVars
    /\ UNCHANGED mtaVars
    /\ UNCHANGED <<existing, ONLY_SUBWAY, stopsRead, stopToStation,
                   stationName, routeMap, tripToRoute, stopTimesRead, rows,
                   missedTrips, missedStops, stationRoutes, stations, stderr>>

\* main: the output file is written and the process ends.
WriteOutput ==
    /\ pc = "writeFileSync"
    /\ outFile' = Append(outFile, stations)
    /\ pc' = "done"
    /\ exitCode' = 0
    /\ UNCHANGED lastRow
    /\ UNCHANGED uiVars
    /\ UNCHANGED mtaVars
    /\ UNCHANGED <<existing, ONLY_SUBWAY, stopsRead, stopToStation,
                   stationName, routeMap, tripToRoute, stopTimesRead, rows,
                   missedTrips, missedStops, stationRoutes, stations, stderr>>

\* A read stream fails while one of the four tables is streamed: the
\* rejection reaches main().catch.
Streaming == {"loadStops", "loadRoutes", "loadTrips", "buildStationLines"}

\* Variant whose loaders swallow the error: it is logged and main goes on
\* with the next step.
StreamErrorSwallowed ==
    /\ pc \in Streaming
    /\ Len(stderr) < 4
    /\ stderr' = Append(stderr, [kind |-> "Error", file |-> ""])
    /\ pc' = CASE pc = "loadStops" -> "loadRoutes"
                [] pc = "loadRoutes" -> "loadTrips"
                [] pc = "loadTrips" -> "buildStationLines"
                [] pc = "buildStationLines" -> "failed"
    /\ exitCode' = IF pc = "buildStationLines" THEN 1 ELSE exitCode
    /\ UNCHANGED lastRow
    /\ UNCHANGED uiVars
    /\ UNCHANGED mtaVars
    /\ UNCHANGED <<existing, ONLY_SUBWAY, stopsRead, stopToStation,
                   stationName, routeMap, tripToRoute, stopTimesRead, rows,
                   missedTrips, missedStops, stationRoutes, stations, outFile>>

StreamError ==
    /\ pc \in Streaming
    /\ stderr' = Append(stderr, [kind |-> "Error", file |-> ""])
    /\ exitCode' = 1
    /\ pc' = "failed"
    /\ UNCHANGED lastRow
    /\ UNCHANGED uiVars
    /\ UNCHANGED mtaVars
    /\ UNCHANGED <<existing, ONLY_SUBWAY, stopsRead, stopToStation,
                   stationName, routeMap, tripToRoute, stopTimesRead, rows,
                   missedTrips, missedStops, stationRoutes, stations, outFile>>

\* ------------------------------------------------------------------------
\* The whole run

Init ==
    /\ pc = "required"
    /\ existing \in SUBSET Range(required)
    /\ ONLY_SUBWAY \in BOOLEAN
    /\ stopsRead = <<>>
    /\ stopToStation = EmptyMap
    /\ stationName = EmptyMap
    /\ routeMap = EmptyMap
    /\ tripToRoute = EmptyMap
    /\ stopTimesRead = <<>>
    /\ rows = 0
    /\ missedTrips = 0
    /\ missedStops = 0
    /\ stationRoutes = <<>>
    /\ stations = <<>>
    /\ outFile = <<>>
    /\ stderr = <<>>
    /\ exitCode = Running
    /\ lastRow = NoRow
    /\ uiFile = <<>>
    /\ request = NoRequest
    /\ response = NoResponse

Next ==
    \/ Preflight
    \/ \E row \in StopRows : LoadStopsRow(row)
    \/ LoadStopsEnd
    \/ \E row \in RunRouteRows : LoadRoutesRow(row)
    \/ LoadRoutesEnd
    \/ \E row \in RunTripRows : LoadTripsRow(row)
    \/ LoadTripsEnd
    \/ \E row \in RunStopTimeRows : AggregateRow(row)
    \/ StopTimesEnd
    \/ WriteOutput
    \/ StreamError

Spec == Init /\ [][Next]_vars

\* ------------------------------------------------------------------------
\* The aggregation pass on its own: buildStationLines called with the maps
\* the loaders build from a few reference tables, over every kind of
\* stop_times row.

StopRow(id, name, parent) ==
    [stop_id |-> id, stop_name |-> name, parent_station |-> parent]

AggStopsTables ==
    { <<StopRow("101", "Grand Ave", ""), StopRow("101N", "", "101")>>,
      <<StopRow("101N", "", "101")>>,
      <<StopRow("101", "Grand Ave", ""), StopRow("101N", "", "")>> }

MaxRefRows == 2

AggRouteMaps == {LoadRoutes(t) : t \in SeqsUpTo(RouteRows, MaxRefRows)}
AggTripMaps == {LoadTrips(t) : t \in SeqsUpTo(TripRows, MaxRefRows)}

InitAggregate ==
    /\ pc = "buildStationLines"
    /\ existing = Range(required)
    /\ ONLY_SUBWAY \in BOOLEAN
    /\ stopsRead \in AggStopsTables
    /\ stopToStation = LoadStops(stopsRead).stopToStation
    /\ stationName = LoadStops(stopsRead).stationName
    /\ routeMap \in AggRouteMaps
    /\ tripToRoute \in AggTripMaps
    /\ stopTimesRead = <<>>
    /\ rows = 0
    /\ missedTrips = 0
    /\ missedStops = 0
    /\ stationRoutes = <<>>
    /\ stations = <<>>
    /\ outFile = <<>>
    /\ stderr = <<>>
    /\ exitCode = Running
    /\ lastRow = NoRow
    /\ uiFile = <<>>
    /\ request = NoRequest
    /\ response = NoResponse

NextAggregate ==
    \/ \E row \in StopTimeRows : AggregateRow(row)
    \/ StopTimesEnd
    \/ WriteOutput

SpecAggregate == InitAggregate /\ [][NextAggregate]_vars

\* ------------------------------------------------------------------------
\* loadStops on its own, over rows of two different names.

NamedStopRows ==
    [stop_id : StopIds, stop_name : {"", "Grand Ave", "Uptown"},
     parent_station : ParentIds \cup {""}]
    \cup {[stop_id |-> "", stop_name |-> "Uptown", parent_station |-> ""]}

InitStops ==
    /\ pc = "loadStops"
    /\ existing = Range(required)
    /\ ONLY_SUBWAY = FALSE
    /\ lastRow = NoRow
    /\ stopsRead = <<>>
    /\ stopToStation = EmptyMap
    /\ stationName = EmptyMap
    /\ routeMap = EmptyMap
    /\ tripToRoute = EmptyMap
    /\ stopTimesRead = <<>>
    /\ rows = 0
    /\ missedTrips = 0
    /\ missedStops = 0
    /\ stationRoutes = <<>>
    /\ stations = <<>>
    /\ outFile = <<>>
    /\ stderr = <<>>
    /\ exitCode = Running
    /\ uiFile = <<>>
    /\ request = NoRequest
    /\ response = NoResponse

NextStops ==
    \/ \E row \in NamedStopRows : LoadStopsRow(row)
    \/ LoadStopsEnd

SpecStops == InitStops /\ [][NextStops]_vars

\* ------------------------------------------------------------------------
\* loadRoutes on its own, over rows with and without a short name.

CatalogRouteRows ==
    [route_id : RouteIds \cup {""}, route_short_name : {"", "A"},
     route_type : RouteTypes \cup {""}]

InitRoutes ==
    /\ pc = "loadRoutes"
    /\ existing = Range(required)
    /\ ONLY_SUBWAY = FALSE
    /\ lastRow = NoRow
    /\ stopsRead = <<>>
    /\ stopToStation = EmptyMap
    /\ stationName = EmptyMap
    /\ routeMap = EmptyMap
    /\ tripToRoute = EmptyMap
    /\ stopTimesRead = <<>>
    /\ rows = 0
    /\ missedTrips = 0
    /\ missedStops = 0
    /\ stationRoutes = <<>>
    /\ stations = <<>>
    /\ outFile = <<>>
    /\ stderr = <<>>
    /\ exitCode = Running
    /\ uiFile = <<>>
    /\ request = NoRequest
    /\ response = NoResponse

NextRoutes ==
    \/ \E row \in CatalogRouteRows : LoadRoutesRow(row)
    \/ LoadRoutesEnd

SpecRoutes == InitRoutes /\ [][NextRoutes]_vars

\* ------------------------------------------------------------------------
\* The whole run over tables of one valid row and the rows that lack a key
\* field, all files present.

RunStopRows == {r \in StopRows : r.stop_id = "" \/ (r.stop_id = "101" /\ r.stop_name # ""
                                                     /\ r.parent_station = "")}
KeyRouteRows == {r \in RouteRows : r.route_id = "" \/ (r.route_id = "Q" /\ r.route_type = "1")}
KeyStopTimeRows == {r \in StopTimeRows : r.trip_id \in {"t1", ""} /\ r.stop_id \in {"101", ""}}

InitMalformed == Init /\ existing = Range(required) /\ ~ONLY_SUBWAY

NextMalformed ==
    \/ Preflight
    \/ \E row \in RunStopRows : LoadStopsRow(row)
    \/ LoadStopsEnd
    \/ \E row \in KeyRouteRows : LoadRoutesRow(row)
    \/ LoadRoutesEnd
    \/ \E row \in RunTripRows : LoadTripsRow(row)
    \/ LoadTripsEnd
    \/ \E row \in KeyStopTimeRows : AggregateRow(row)
    \/ StopTimesEnd
    \/ WriteOutput

SpecMalformed == InitMalformed /\ [][NextMalformed]_vars

\* ------------------------------------------------------------------------
\* The run with all four files present and no stream error, under the
\* scheduling of the event loop: main is a chain of awaits over finite files,
\* and a continuation that is ready to run is run.

\* The end of each file is delivered and main goes on from each await.  The
\* condition on StopTimesEnd is WF_vars(StopTimesEnd) with the enabledness of
\* the step, which changes pc, written as the position it starts from.
Scheduling ==
    /\ WF_vars(Preflight)
    /\ WF_vars(LoadStopsEnd)
    /\ WF_vars(LoadRoutesEnd)
    /\ WF_vars(LoadTripsEnd)
    /\ ([]<>(pc # "buildStationLines") \/ []<><<StopTimesEnd>>_vars)
    /\ WF_vars(WriteOutput)

SpecTerminates == InitMalformed /\ [][NextMalformed]_vars /\ Scheduling

\* ------------------------------------------------------------------------
\* The conversion to the output array on its own: the state at the end of
\* stop_times.txt for two families of tables, one station served by many
\* routes and several stations of various names.

\* Sequences without repetition over the elements of a sequence.
DistinctSeqs(S) ==
    {q \in SeqsUpTo(S, Cardinality(S)) :
       q # <<>> /\ \A i \in DOMAIN q, j \in DOMAIN q : q[i] = q[j] => i = j}

RouteRow(id, short, type) ==
    [route_id |-> id, route_short_name |-> short, route_type |-> type]

AsmRouteIds == {"1", "2", "10", "A", "a", "Q"}
AsmStationIds == <<"101", "101N", "20">>
AsmNames == {"", "Grand Ave", "grand ave", "Astor Pl"}

\* Each trip is named after its route.
AsmTrips == [r \in AsmRouteIds \cup {"B"} |-> r]

AsmRoutesTables ==
    { <<>>,
      <<RouteRow("Q", "A", "1")>>,
      <<RouteRow("Q", "A", "1"), RouteRow("a", "A", "1"), RouteRow("10", "2", "1")>> }

\* One station, any selection of routes in any order of first visit.
AsmLinesInputs ==
    {[stops |-> <<StopRow("101", "Grand Ave", "")>>,
      routes |-> rt,
      stopTimes |-> [i \in DOMAIN q |-> [trip_id |-> q[i], stop_id |-> "101"]]] :
        rt \in AsmRoutesTables, q \in DistinctSeqs(AsmRouteIds)}

\* Any selection of stations in any order of first visit, each of any name.
AsmStationsInputs ==
    {[stops |-> [i \in DOMAIN AsmStationIds |->
                   StopRow(AsmStationIds[i], nm[i], "")],
      routes |-> <<>>,
      stopTimes |-> [i \in DOMAIN q |-> [trip_id |-> "B", stop_id |-> q[i]]]] :
        nm \in [DOMAIN AsmStationIds -> AsmNames],
        q \in DistinctSeqs(Range(AsmStationIds))}

InitAssemble ==
    \E inp \in AsmLinesInputs \cup AsmStationsInputs :
      LET a == Aggregate(inp.stopTimes, AsmTrips, LoadStops(inp.stops).stopToStation,
                         LoadRoutes(inp.routes), FALSE)
      IN  /\ pc = "buildStationLines"
          /\ existing = Range(required)
          /\ ONLY_SUBWAY = FALSE
          /\ stopsRead = inp.stops
          /\ stopToStation = LoadStops(inp.stops).stopToStation
          /\ stationName = LoadStops(inp.stops).stationName
          /\ routeMap = LoadRoutes(inp.routes)
          /\ tripToRoute = AsmTrips
          /\ stopTimesRead = inp.stopTimes
          /\ rows = a.rows
          /\ missedTrips = a.missedTrips
          /\ missedStops = a.missedStops
          /\ stationRoutes = a.stationRoutes
          /\ stations = <<>>
          /\ outFile = <<>>
          /\ stderr = <<>>
          /\ exitCode = Running
          /\ lastRow = inp.stopTimes[Len(inp.stopTimes)]
          /\ uiFile = <<>>
          /\ request = NoRequest
          /\ response = NoResponse

NextAssemble ==
    \/ StopTimesEnd
    \/ WriteOutput

SpecAssemble == InitAssemble /\ [][NextAssemble]_vars

\* ------------------------------------------------------------------------
\* The enrichment scripts: build-stations-ui-from-files.mjs builds
\* stations-ui.json from the output of the pipeline, the borough CSV and
\* stops.txt; merge-boroughs-into-stations-ui.mjs rewrites it with the
\* boroughs of a CSV.  A file holds the array JSON.stringify was given.  A
\* script that misses one of its files ends before it reads or writes.

ToUpper(c) == IF IsLower(c) THEN Upper[IndexOf(Lower, c)] ELSE c
ToLower(c) == IF IsUpper(c) THEN Lower[IndexOf(Upper, c)] ELSE c

\* inferDirFromStopId: "N" or "S", or "" for null.
inferDirFromStopId(stopId) ==
    LET cs == Chars(stopId)
    IN  IF cs = <<>> THEN ""
        ELSE LET last == ToUpper(cs[Len(cs)])
             IN  IF last \in {"N", "S"} THEN last ELSE ""

RECURSIVE TrimLeft(_)
TrimLeft(cs) == IF cs # <<>> /\ Head(cs) = " " THEN TrimLeft(Tail(cs)) ELSE cs
RECURSIVE TrimRight(_)
TrimRight(cs) ==
    IF cs # <<>> /\ cs[Len(cs)] = " " THEN TrimRight(SubSeq(cs, 1, Len(cs) - 1)) ELSE cs
Trim(cs) == TrimRight(TrimLeft(cs))

\* replace(/\s+/g, " ")
RECURSIVE Collapse(_)
Collapse(cs) ==
    IF Len(cs) < 2 THEN cs
    ELSE IF cs[1] = " " /\ cs[2] = " " THEN Collapse(Tail(cs))
    ELSE <<cs[1]>> \o Collapse(Tail(cs))

\* normName, as the characters of the normalised name.
normName(name) ==
    LET cs == Collapse(Trim(Chars(name)))
    IN  [i \in DOMAIN cs |-> ToLower(cs[i])]

\* replace(/^"|"$/g, "") after trim.
StripQuotes(cs) ==
    LET a == IF cs # <<>> /\ Head(cs) = "\"" THEN Tail(cs) ELSE cs
    IN  IF a # <<>> /\ a[Len(a)] = "\"" THEN SubSeq(a, 1, Len(a) - 1) ELSE a

\* The strings of the CSV fields and station ids.
Texts == {"", "101", "20", "\"20\"", "Queens", "Bronx", "Unknown"}

\* cleanId and cleanBorough: the string made of the cleaned characters.
cleanId(x) == CHOOSE y \in Texts : Chars(y) = StripQuotes(Trim(Chars(x)))
cleanBorough(x) == CHOOSE y \in Texts : Chars(y) = StripQuotes(Trim(Chars(x)))

\* Variant that keys the map by the station's name.
byIdKeyedByName(base) ==
    LET first == {i \in DOMAIN base : \A j \in 1..(i - 1) : base[j].name # base[i].name}
        last(i) == CHOOSE j \in DOMAIN base :
                     /\ base[j].name = base[i].name
                     /\ \A k \in DOMAIN base : base[k].name = base[i].name => k <= j
        RECURSIVE Pick(_)
        Pick(i) == IF i > Len(base) THEN <<>>
                   ELSE IF i \in first THEN <<base[last(i)]>> \o Pick(i + 1)
                   ELSE Pick(i + 1)
    IN  Pick(1)

\* new Map(stationsBase.map(s => [String(s.id), { ...s }])): the values in
\* insertion order of the keys, a repeated key keeping its last value.
byId(base) ==
    LET first == {i \in DOMAIN base : \A j \in 1..(i - 1) : base[j].id # base[i].id}
        last(i) == CHOOSE j \in DOMAIN base :
                     /\ base[j].id = base[i].id
                     /\ \A k \in DOMAIN base : base[k].id = base[i].id => k <= j
        RECURSIVE Pick(_)
        Pick(i) == IF i > Len(base) THEN <<>>
                   ELSE IF i \in first THEN <<base[last(i)]>> \o Pick(i + 1)
                   ELSE Pick(i + 1)
    IN  Pick(1)

\* The map id -> borough of build-stations-ui-from-files.mjs.
boroughById(records) ==
    LET RECURSIVE F(_)
        F(n) == IF n = 0 THEN EmptyMap
                ELSE IF records[n].id # "" /\ records[n].borough # ""
                     THEN MapSet(F(n - 1), records[n].id, records[n].borough)
                     ELSE F(n - 1)
    IN  F(Len(records))

\* The map id -> borough of merge-boroughs-into-stations-ui.mjs.
idToBorough(csvRows) ==
    LET RECURSIVE F(_)
        F(n) == IF n = 0 THEN EmptyMap
                ELSE LET id == cleanId(csvRows[n].id)
                         borough == cleanBorough(csvRows[n].borough)
                     IN  IF id # "" /\ borough # ""
                         THEN MapSet(F(n - 1), id, borough)
                         ELSE F(n - 1)
    IN  F(Len(csvRows))

\* dirStopsByStation.get(stationId)?.get(dir): the first platform of the
\* station in that direction, "" when there is none.
dirStop(stopRows, ids, stationId, dir) ==
    LET hits == {i \in DOMAIN stopRows :
                   /\ stopRows[i].stop_id # ""
                   /\ StationIdOf(stopRows[i].stop_id, stopRows[i].parent_station) = stationId
                   /\ stationId \in ids
                   /\ inferDirFromStopId(stopRows[i].stop_id) = dir}
    IN  IF hits = {} THEN ""
        ELSE stopRows[CHOOSE i \in hits : \A j \in hits : i <= j].stop_id

directions(stopRows, ids, stationId) ==
    LET n == dirStop(stopRows, ids, stationId, "N")
        so == dirStop(stopRows, ids, stationId, "S")
    IN  (IF n # "" THEN <<[dir |-> "N", stopId |-> n]>> ELSE <<>>)
        \o (IF so # "" THEN <<[dir |-> "S", stopId |-> so]>> ELSE <<>>)

\* lines.join(", ")
RECURSIVE JoinLines(_)
JoinLines(lines) ==
    IF lines = <<>> THEN <<>>
    ELSE IF Len(lines) = 1 THEN Chars(lines[1])
    ELSE Chars(lines[1]) \o <<",", " ">> \o JoinLines(Tail(lines))

\* The display name, as its characters: the name, followed by the lines in
\* parentheses when another station has the same normalised name.
displayName(st, all) ==
    LET isDup == Cardinality({i \in DOMAIN all :
                                normName(all[i].name) = normName(st.name)}) > 1
    IN  IF isDup
        THEN Chars(st.name) \o <<" ", "(">> \o JoinLines(st.lines) \o <<")">>
        ELSE Chars(st.name)

\* The comparator of the stations-ui array: borough, then display name.
UiCompare(a, b) ==
    LET bc == LocaleCompare(a.borough, b.borough, FALSE)
    IN  IF bc # 0 THEN bc
        ELSE CompareKeys(CollationKey(a.displayName, FALSE),
                         CollationKey(b.displayName, FALSE))

\* The array build-stations-ui-from-files.mjs writes.
BuildUi(base, records, stopRows) ==
    LET m == byId(base)
        ids == {m[i].id : i \in DOMAIN m}
        boroughs == boroughById(records)
        out == [i \in DOMAIN m |->
                  [id |-> m[i].id, name |-> m[i].name, lines |-> m[i].lines,
                   borough |-> IF Get(boroughs, m[i].id) # ""
                               THEN boroughs[m[i].id] ELSE "Unknown",
                   directions |-> directions(stopRows, ids, m[i].id),
                   displayName |-> displayName(m[i], m)]]
    IN  StableSort(out, [i \in DOMAIN out |->
                           [j \in DOMAIN out |-> UiCompare(out[i], out[j])]])

\* The array merge-boroughs-into-stations-ui.mjs writes.
MergeUi(ui, csvRows) ==
    LET boroughs == idToBorough(csvRows)
    IN  [i \in DOMAIN ui |->
           LET b == Get(boroughs, cleanId(ui[i].id))
           IN  [ui[i] EXCEPT !.borough =
                  IF b # "" THEN b
                  ELSE IF @ # "" /\ @ # "Unknown" THEN @ ELSE "Unknown"]]

MaxUiWrites == 2

BuildStationsUi(records) ==
    /\ "stops.txt" \in existing
    /\ outFile # <<>>
    /\ Len(uiFile) < MaxUiWrites
    /\ uiFile' = Append(uiFile, BuildUi(outFile[Len(outFile)], records, stopsRead))
    /\ UNCHANGED <<pc, existing, ONLY_SUBWAY, lastRow, stopsRead, stopToStation,
                   stationName, routeMap, tripToRoute, stopTimesRead, rows,
                   missedTrips, missedStops, stationRoutes, stations, outFile,
                   stderr, exitCode>>
    /\ UNCHANGED mtaVars

MergeBoroughs(csvRows) ==
    /\ uiFile # <<>>
    /\ Len(uiFile) < MaxUiWrites
    /\ uiFile' = Append(uiFile, MergeUi(uiFile[Len(uiFile)], csvRows))
    /\ UNCHANGED <<pc, existing, ONLY_SUBWAY, lastRow, stopsRead, stopToStation,
                   stationName, routeMap, tripToRoute, stopTimesRead, rows,
                   missedTrips, missedStops, stationRoutes, stations, outFile,
                   stderr, exitCode>>
    /\ UNCHANGED mtaVars

\* The borough CSVs: records of an id and a borough.
CsvRow(id, borough) == [id |-> id, borough |-> borough]
CsvTables ==
    { <<>>,
      <<CsvRow("101", "Queens")>>,
      <<CsvRow("101", "Bronx"), CsvRow("\"20\"", "Queens")>>,
      <<CsvRow("20", ""), CsvRow("", "Bronx"), CsvRow("20", "Bronx")>> }

\* Finished runs of the pipeline: station 101 with its two platforms and
\* station 20, of equal or different names, visited in a few ways.
UiNames == {"Grand Ave", "grand  ave", "Astor Pl"}
UiStopTimes ==
    { <<[trip_id |-> "Q", stop_id |-> "101N"], [trip_id |-> "B", stop_id |-> "101S"],
        [trip_id |-> "B", stop_id |-> "20"]>>,
      <<[trip_id |-> "B", stop_id |-> "20"], [trip_id |-> "Q", stop_id |-> "101N"]>>,
      <<[trip_id |-> "Q", stop_id |-> "101S"]>> }
UiInputs ==
    {[stops |-> <<StopRow("101", n1, ""), StopRow("101S", "", "101"),
                  StopRow("101N", "", "101"), StopRow("20", n2, "")>>,
      stopTimes |-> t] : n1 \in UiNames, n2 \in UiNames, t \in UiStopTimes}

InitEnrich ==
    \E inp \in UiInputs :
      LET m == LoadStops(inp.stops)
          a == Aggregate(inp.stopTimes, AsmTrips, m.stopToStation, EmptyMap, FALSE)
      IN  /\ pc = "done"
          /\ existing = Range(required)
          /\ ONLY_SUBWAY = FALSE
          /\ lastRow = NoRow
          /\ stopsRead = inp.stops
          /\ stopToStation = m.stopToStation
          /\ stationName = m.stationName
          /\ routeMap = EmptyMap
          /\ tripToRoute = AsmTrips
          /\ stopTimesRead = inp.stopTimes
          /\ rows = a.rows
          /\ missedTrips = a.missedTrips
          /\ missedStops = a.missedStops
          /\ stationRoutes = a.stationRoutes
          /\ stations = Assemble(a.stationRoutes, m.stationName, EmptyMap)
          /\ outFile = <<Assemble(a.stationRoutes, m.stationName, EmptyMap)>>
          /\ stderr = <<>>
          /\ exitCode = 0
          /\ uiFile = <<>>
          /\ request = NoRequest
          /\ response = NoResponse

NextEnrich ==
    \/ \E records \in CsvTables : BuildStationsUi(records)
    \/ \E csvRows \in CsvTables : MergeBoroughs(csvRows)

SpecEnrich == InitEnrich /\ [][NextEnrich]_vars

\* ------------------------------------------------------------------------
\* The departure server of src/index.js: GET /mta.  A request holds the
\* query parameters stopId and line as arrays (asArrayParam), the feeds
\* fetchFeedsForLines returned and the clock at the call.  An optional field
\* of a stop time update is a sequence of no or one value.  The keys of seen
\* are kept as tuples; no id of the requests below holds the separator "|".

\* The strings the line parameters and route ids are taken from.
LineTexts == {"", " ", "q", "Q", "B"}

\* String(x || "").trim().toUpperCase()
normalizeLine(x) ==
    CHOOSE y \in LineTexts :
      Chars(y) = [i \in DOMAIN Trim(Chars(x)) |-> ToUpper(Trim(Chars(x))[i])]

\* new Set((allowedLines || []).map(normalizeLine).filter(Boolean))
allowSet(allowedLines) ==
    {normalizeLine(allowedLines[i]) : i \in DOMAIN allowedLines} \ {""}

\* arrival.time ?? departure.time: the arrival time when there is one, zero
\* included.
TimeOf(stu) == IF stu.arrival # <<>> THEN stu.arrival ELSE stu.departure

\* Math.round(etaSec / 60) for etaSec >= 0
EtaMinutes(etaSec) == (etaSec + 30) \div 60

\* Variant that pushes an update whatever seen holds.
StuStepUnseen(acc, routeId, tripId, stu, stopSet, nowSec) ==
    LET t == TimeOf(stu)
    IN  IF stu.stopId = "" \/ stu.stopId \notin stopSet THEN acc
        ELSE IF t = <<>> \/ t[1] = 0 THEN acc
        ELSE IF t[1] - nowSec < 0 THEN acc
        ELSE [seen |-> acc.seen \cup {<<routeId, stu.stopId, t[1], tripId>>},
              out |-> Append(acc.out,
                             [routeId |-> routeId, stopId |-> stu.stopId,
                              timestamp |-> t[1],
                              etaMinutes |-> EtaMinutes(t[1] - nowSec)])]

\* The body of stopTimeUpdate.forEach on the pair of seen and departures.
StuStep(acc, routeId, tripId, stu, stopSet, nowSec) ==
    LET t == TimeOf(stu)
    IN  IF stu.stopId = "" \/ stu.stopId \notin stopSet THEN acc
        ELSE IF t = <<>> \/ t[1] = 0 THEN acc
        ELSE IF t[1] - nowSec < 0 THEN acc
        ELSE IF <<routeId, stu.stopId, t[1], tripId>> \in acc.seen THEN acc
        ELSE [seen |-> acc.seen \cup {<<routeId, stu.stopId, t[1], tripId>>},
              out |-> Append(acc.out,
                             [routeId |-> routeId, stopId |-> stu.stopId,
                              timestamp |-> t[1],
                              etaMinutes |-> EtaMinutes(t[1] - nowSec)])]

\* The body of feed.entity.forEach.
EntityStep(acc, entity, stopSet, allowed, nowSec) ==
    IF ~entity.tripUpdate THEN acc
    ELSE LET routeId == normalizeLine(entity.routeId)
             RECURSIVE F(_)
             F(n) == IF n = 0 THEN acc
                     ELSE StuStep(F(n - 1), routeId, entity.tripId,
                                  entity.stopTimeUpdate[n], stopSet, nowSec)
         IN  IF allowed # {} /\ routeId \notin allowed THEN acc
             ELSE F(Len(entity.stopTimeUpdate))

\* The body of feeds.forEach.
FeedStep(acc, feed, stopSet, allowed, nowSec) ==
    LET RECURSIVE F(_)
        F(n) == IF n = 0 THEN acc
                ELSE EntityStep(F(n - 1), feed[n], stopSet, allowed, nowSec)
    IN  F(Len(feed))

\* departures.sort((a, b) => a.timestamp - b.timestamp)
SortByTimestamp(deps) ==
    StableSort(deps, [i \in DOMAIN deps |->
                        [j \in DOMAIN deps |-> deps[i].timestamp - deps[j].timestamp]])

filterDeparturesForStops(feeds, stopIds, allowedLines, nowSec) ==
    LET stopSet == Range(stopIds)
        allowed == allowSet(allowedLines)
        RECURSIVE F(_)
        F(n) == IF n = 0 THEN [seen |-> {}, out |-> <<>>]
                ELSE FeedStep(F(n - 1), feeds[n], stopSet, allowed, nowSec)
    IN  SortByTimestamp(F(Len(feeds)).out)

\* .map(String).filter(Boolean) on a query parameter
NonBlank(arr) == SelectSeq(arr, LAMBDA x : x # "")

\* app.get("/mta"): 400 without a stop id, else the departures.
MtaHandler ==
    /\ request # NoRequest
    /\ response = NoResponse
    /\ LET stopIds == NonBlank(request.stopId)
           lines == NonBlank(request.line)
       IN  response' =
             IF stopIds = <<>>
             THEN [status |-> 400, departures |-> <<>>]
             ELSE [status |-> 200,
                   departures |-> filterDeparturesForStops(request.feeds, stopIds,
                                                           lines, request.nowSec)]
    /\ UNCHANGED request
    /\ UNCHANGED uiVars
    /\ UNCHANGED <<pc, existing, ONLY_SUBWAY, lastRow, stopsRead, stopToStation,
                   stationName, routeMap, tripToRoute, stopTimesRead, rows,
                   missedTrips, missedStops, stationRoutes, stations, outFile,
                   stderr, exitCode>>

\* Stop time updates and entities of the feeds.
Stu(stopId, arrival, departure) ==
    [stopId |-> stopId, arrival |-> arrival, departure |-> departure]
TripUpdate(routeId, tripId, stus) ==
    [tripUpdate |-> TRUE, routeId |-> routeId, tripId |-> tripId,
     stopTimeUpdate |-> stus]
Vehicle == [tripUpdate |-> FALSE]

\* Trip t1 of route Q: two arrivals at 101N out of order, one stop with a
\* departure time only.
EntityQ1 ==
    TripUpdate("Q", "t1", <<Stu("101N", <<220>>, <<>>), Stu("101N", <<160>>, <<>>),
                            Stu("102S", <<>>, <<160>>)>>)
\* The same trip with the route in lower case: one update again, one in the
\* past, one at the clock.
EntityQ1Again ==
    TripUpdate("q", "t1", <<Stu("101N", <<160>>, <<>>), Stu("101N", <<40>>, <<>>),
                            Stu("101N", <<100>>, <<>>)>>)
\* Trip t2 of route B: an arrival time of zero before a departure time, a
\* stop nobody asks for, an update without stop id, an update without time.
EntityB2 ==
    TripUpdate("B", "t2", <<Stu("101N", <<160>>, <<>>), Stu("101N", <<0>>, <<160>>),
                            Stu("103", <<160>>, <<>>), Stu("", <<160>>, <<>>),
                            Stu("102S", <<>>, <<>>)>>)
\* Trip t2 of route Q at the stop and time of trip t1.
EntityQ2 == TripUpdate("Q", "t2", <<Stu("101N", <<160>>, <<>>)>>)

FeedSet ==
    { <<>>, <<Vehicle>>, <<EntityQ1>>, <<EntityQ1Again>>, <<EntityB2>>,
      <<EntityB2, Vehicle>>, <<EntityQ2, EntityQ1>>, <<EntityQ1Again, EntityQ2>> }

MaxFeeds == 2

Requests ==
    [path : {"/mta"},
     stopId : {<<>>, <<"">>, <<"101N">>, <<"101N", "102S">>},
     line : {<<>>, <<"Q">>, <<"q">>, <<" ">>, <<"B">>, <<"", "Q">>},
     feeds : SeqsUpTo(FeedSet, MaxFeeds),
     nowSec : {100}]

InitServer ==
    /\ pc = "required"
    /\ existing = {}
    /\ ONLY_SUBWAY = FALSE
    /\ lastRow = NoRow
    /\ stopsRead = <<>>
    /\ stopToStation = EmptyMap
    /\ stationName = EmptyMap
    /\ routeMap = EmptyMap
    /\ tripToRoute = EmptyMap
    /\ stopTimesRead = <<>>
    /\ rows = 0
    /\ missedTrips = 0
    /\ missedStops = 0
    /\ stationRoutes = <<>>
    /\ stations = <<>>
    /\ outFile = <<>>
    /\ stderr = <<>>
    /\ exitCode = Running
    /\ uiFile = <<>>
    /\ request \in Requests
    /\ response = NoResponse

NextServer == MtaHandler

SpecServer == InitServer /\ [][NextServer]_vars

\* ------------------------------------------------------------------------
\* Vocabulary of the properties

\* The array of stations has been built.
Finished == pc \in {"writeFileSync", "done"}

RemoveAt(seq, i) == SubSeq(seq, 1, i - 1) \o SubSeq(seq, i + 1, Len(seq))

AllFiles == Range(required)

IsStationRow(r, S, N) ==
    r.stop_id = S /\ r.parent_station = "" /\ r.stop_name = N
IsChildRow(r, C, S) == r.stop_id = C /\ r.parent_station = S
RowsWithId(id) == {i \in DOMAIN stopsRead : stopsRead[i].stop_id = id}

\* The station of a row of stops.txt, as the stop resolver defines it.
StationOfRow(r) == IF r.parent_station # "" THEN r.parent_station ELSE r.stop_id
\* The rows read so far that belong to station S.
RowsOfStation(S) ==
    {i \in DOMAIN stopsRead : stopsRead[i].stop_id # "" /\ StationOfRow(stopsRead[i]) = S}
\* The rows read so far that are named station rows of S.
NamedStationRows(S) ==
    {i \in DOMAIN stopsRead : /\ stopsRead[i].stop_id = S
                              /\ stopsRead[i].parent_station = ""
                              /\ stopsRead[i].stop_name # ""}
Max(I) == CHOOSE i \in I : \A j \in I : j <= i
Min(I) == CHOOSE i \in I : \A j \in I : i <= j

TripResolves(row) == row.trip_id # "" /\ Has(tripToRoute, row.trip_id)
StopResolves(row) == row.stop_id # "" /\ Has(stopToStation, row.stop_id)
\* The route is in the catalog with a route_type that is neither blank nor "1".
KnownNonSubway(route_id) ==
    Has(routeMap, route_id) /\ routeMap[route_id].routeType \notin {"", "1"}
SkippedByFilter(row) == ONLY_SUBWAY /\ KnownNonSubway(tripToRoute[row.trip_id])

\* The stage of the pipeline a position of the program belongs to.
Stage(p) ==
    CASE p \in {"required", "loadStops", "loadRoutes", "loadTrips"}
           -> "LOADING_REFERENCE_TABLES"
      [] p = "buildStationLines" -> "AGGREGATING"
      [] p = "writeFileSync" -> "ASSEMBLING"
      [] p = "done" -> "DONE"
      [] p = "failed" -> "FAILED"

StageSteps ==
    { <<"LOADING_REFERENCE_TABLES", "AGGREGATING">>,
      <<"LOADING_REFERENCE_TABLES", "FAILED">>,
      <<"AGGREGATING", "ASSEMBLING">>,
      <<"AGGREGATING", "FAILED">>,
      <<"ASSEMBLING", "DONE">> }

\* Nothing of the aggregation pass has happened.
AggregationNotStarted ==
    stopTimesRead = <<>> /\ rows = 0 /\ missedTrips = 0 /\ missedStops = 0
    /\ stationRoutes = <<>> /\ stations = <<>>

indices == <<stopToStation, stationName, routeMap, tripToRoute>>

\* The routes an accumulator holds for a station.
RoutesIn(acc, station_id) ==
    UNION {Range(acc[i].routeIds) : i \in {j \in DOMAIN acc : acc[j].id = station_id}}

\* The numbers of rows read that lack a key field.
MalformedStops == Cardinality({i \in DOMAIN stopsRead : stopsRead[i].stop_id = ""})
MalformedStopTimes ==
    Cardinality({i \in DOMAIN stopTimesRead :
                   stopTimesRead[i].trip_id = "" \/ stopTimesRead[i].stop_id = ""})
Numbers(log) == {log[i].n : i \in DOMAIN log}

\* The id, name and lines of the records of an array, as a set.
Core(arr) ==
    {[id |-> arr[i].id, name |-> arr[i].name, lines |-> arr[i].lines] : i \in DOMAIN arr}

\* The number of route ids an accumulator holds.
RECURSIVE Size(_)
Size(acc) == IF acc = <<>> THEN 0 ELSE Len(Head(acc).routeIds) + Size(Tail(acc))

\* The rows of stops.txt leave station S without a name: the first row of the
\* station is unnamed and no parent-less row of S carries a name.
LeftUnnamed(S) ==
    /\ NamedStationRows(S) = {}
    /\ RowsOfStation(S) # {} => stopsRead[Min(RowsOfStation(S))].stop_name = ""

\* The stop_times rows read so far that insert a route for station S.
InsertingRows(S) ==
    {k \in DOMAIN stopTimesRead :
       /\ TripResolves(stopTimesRead[k])
       /\ StopResolves(stopTimesRead[k])
       /\ ~SkippedByFilter(stopTimesRead[k])
       /\ stopToStation[stopTimesRead[k].stop_id] = S}

\* The loop of buildStationLines run over a table with the maps of the state.
Fold(table) ==
    Aggregate(table, tripToRoute, stopToStation, routeMap, ONLY_SUBWAY).stationRoutes

\* An accumulator as a mapping from station to set of routes.
AsMapping(acc) ==
    [S \in {acc[i].id : i \in DOMAIN acc} |-> RoutesIn(acc, S)]

\* The merge of two shard accumulators: set union per station.
Merge(m1, m2) ==
    [S \in DOMAIN m1 \cup DOMAIN m2 |->
       (IF S \in DOMAIN m1 THEN m1[S] ELSE {})
       \cup (IF S \in DOMAIN m2 THEN m2[S] ELSE {})]

\* The contiguous shards of a table cut after the positions of B, in order.
Shards(table, B) ==
    LET ends == B \cup {Len(table)}
        starts == {1} \cup {b + 1 : b \in B}
        RECURSIVE From(_)
        From(st) ==
            LET en == Min({e \in ends : e >= st})
            IN  <<SubSeq(table, st, en)>>
                \o (IF en = Len(table) THEN <<>> ELSE From(en + 1))
    IN  IF table = <<>> THEN <<>> ELSE From(1)

\* The shards folded one by one and merged from the left.
RECURSIVE MergeAll(_)
MergeAll(shards) ==
    IF shards = <<>> THEN AsMapping(<<>>)
    ELSE Merge(MergeAll(SubSeq(shards, 1, Len(shards) - 1)),
               AsMapping(Fold(shards[Len(shards)])))

\* A table with the rows at two positions exchanged.
Swap(table, i, j) ==
    [k \in DOMAIN table |->
       IF k = i THEN table[j] ELSE IF k = j THEN table[i] ELSE table[k]]

\* The output array of buildStationLines for a stop_times table, with the maps
\* of the state.
OutputOf(table) == Assemble(Fold(table), stationName, routeMap)

\* The (route, stop, time, trip) combinations the feeds of the request carry,
\* the route normalised.
Updates ==
    UNION {UNION {{<<normalizeLine(request.feeds[f][e].routeId),
                     request.feeds[f][e].stopTimeUpdate[u].stopId,
                     TimeOf(request.feeds[f][e].stopTimeUpdate[u])[1],
                     request.feeds[f][e].tripId>> :
                     u \in {v \in DOMAIN request.feeds[f][e].stopTimeUpdate :
                              TimeOf(request.feeds[f][e].stopTimeUpdate[v]) # <<>>}} :
                   e \in {x \in DOMAIN request.feeds[f] :
                            request.feeds[f][x].tripUpdate}} :
           f \in DOMAIN request.feeds}

\* The stop ids and the allowed lines filterDeparturesForStops is called with.
AskedStops == Range(NonBlank(request.stopId))
AllowedLines == NonBlank(request.line)
NormalisedLines == {normalizeLine(AllowedLines[i]) : i \in DOMAIN AllowedLines}

\* The entries of the response for a route, a stop and a time.
EntriesFor(r, st, t) ==
    {i \in DOMAIN response.departures :
       /\ response.departures[i].routeId = r
       /\ response.departures[i].stopId = st
       /\ response.departures[i].timestamp = t}

\* The list is sorted by timestamp, of asked stops only, of times not before
\* the clock, and holds no more entries for a route, stop and time than the
\* feeds carry trips with that update.
SortedAskedFutureOnce ==
    LET d == response.departures
    IN  /\ \A i \in DOMAIN d, j \in DOMAIN d : i < j => d[i].timestamp <= d[j].timestamp
        /\ \A i \in DOMAIN d :
             /\ d[i].stopId \in AskedStops
             /\ d[i].timestamp >= request.nowSec
             /\ Cardinality(EntriesFor(d[i].routeId, d[i].stopId, d[i].timestamp))
                  <= Cardinality({k \in Updates : /\ k[1] = d[i].routeId
                                                    /\ k[2] = d[i].stopId
                                                    /\ k[3] = d[i].timestamp})

BothPresent(row) == row.trip_id # "" /\ row.stop_id # ""

RoutesAt(station_id) ==
    UNION {Range(stationRoutes[i].routeIds) :
             i \in {j \in DOMAIN stationRoutes : stationRoutes[j].id = station_id}}
OutputIds == {stations[i].id : i \in DOMAIN stations}
NoDuplicateIds ==
    \A r1 \in DOMAIN stations, r2 \in DOMAIN stations :
      stations[r1].id = stations[r2].id => r1 = r2

\* ------------------------------------------------------------------------
\* C1 (as stated): whenever stops.txt has a station row S named N and a row
\* of stop C with parent S, every stop_times row at C whose trip resolves
\* puts its route into the set of S, and the output has a record with id S
\* and name N.
C1_AsStated ==
    Finished =>
      \A S \in StopIds : \A C \in StopIds \ {S} : \A N \in StopNames :
        ( /\ \E i \in DOMAIN stopsRead : IsStationRow(stopsRead[i], S, N)
          /\ \E j \in DOMAIN stopsRead : IsChildRow(stopsRead[j], C, S) )
        => \A k \in DOMAIN stopTimesRead :
             (stopTimesRead[k].stop_id = C /\ TripResolves(stopTimesRead[k]))
             => /\ tripToRoute[stopTimesRead[k].trip_id] \in RoutesAt(S)
                /\ \E r \in DOMAIN stations :
                     stations[r].id = S /\ stations[r].name = N

\* C1 (amended): when S and C are each the stop_id of exactly one row of
\* stops.txt, the row of S parent-less and named N and the row of C with
\* parent S, every stop_times row at C whose trip resolves and which the
\* subway-only filter does not skip puts its route into the set of S and
\* yields an output record with id S, name N and the route's code; C is no
\* station of the output, and every record with id S is named N.
C1_ParentChild ==
    Finished =>
      \A S \in StopIds : \A C \in StopIds \ {S} : \A N \in StopNames :
        ( /\ \E i \in DOMAIN stopsRead :
               RowsWithId(S) = {i} /\ IsStationRow(stopsRead[i], S, N)
          /\ \E j \in DOMAIN stopsRead :
               RowsWithId(C) = {j} /\ IsChildRow(stopsRead[j], C, S) )
        => /\ C \notin OutputIds
           /\ \A r \in DOMAIN stations :
                stations[r].id = S => stations[r].name = N
           /\ \A k \in DOMAIN stopTimesRead :
                ( /\ stopTimesRead[k].stop_id = C
                  /\ TripResolves(stopTimesRead[k])
                  /\ ~SkippedByFilter(stopTimesRead[k]) )
                => /\ tripToRoute[stopTimesRead[k].trip_id] \in RoutesAt(S)
                   /\ \E r \in DOMAIN stations :
                        /\ stations[r].id = S
                        /\ stations[r].name = N
                        /\ ShortCode(routeMap, tripToRoute[stopTimesRead[k].trip_id])
                             \in Range(stations[r].lines)

\* The child row comes before the station row, and a stop_times row at the
\* child has been attributed to the station.
C1_Witness ==
    /\ pc = "done"
    /\ stopsRead = <<StopRow("101N", "", "101"), StopRow("101", "Grand Ave", "")>>
    /\ \E k \in DOMAIN stopTimesRead : stopTimesRead[k].stop_id = "101N"
    /\ stations = <<[id |-> "101", name |-> "Grand Ave", lines |-> <<"Q">>]>>

\* ------------------------------------------------------------------------
\* C3: every id of the output is the stop_id of a stops.txt row with empty
\* parent_station, or the parent_station of a row with a non-empty stop_id.
C3_OutputIdsFromStops ==
    Finished =>
      \A r \in DOMAIN stations :
        \E i \in DOMAIN stopsRead :
          \/ stopsRead[i].stop_id = stations[r].id
               /\ stopsRead[i].parent_station = ""
          \/ stopsRead[i].stop_id # ""
               /\ stopsRead[i].parent_station = stations[r].id

\* A station of the output that stops.txt names only as a parent.
C3_Witness ==
    /\ pc = "done"
    /\ \E r \in DOMAIN stations :
         /\ RowsWithId(stations[r].id) = {}
         /\ \E i \in DOMAIN stopsRead :
              stopsRead[i].parent_station = stations[r].id

\* ------------------------------------------------------------------------
\* C10: when one of the four required files is absent the run leaves the
\* pre-flight check only by exiting with code 1: no row of any table is
\* read, nothing is written, and exactly one error is reported, naming a
\* file that is missing.
C10_MissingFile ==
    existing # AllFiles =>
      /\ pc \in {"required", "failed"}
      /\ stopsRead = <<>> /\ stopTimesRead = <<>> /\ rows = 0
      /\ stopToStation = EmptyMap /\ stationName = EmptyMap
      /\ routeMap = EmptyMap /\ tripToRoute = EmptyMap
      /\ stationRoutes = <<>> /\ stations = <<>>
      /\ outFile = <<>>
      /\ pc = "required" => (exitCode = Running /\ stderr = <<>>)
      /\ pc = "failed" =>
           /\ exitCode = 1
           /\ Len(stderr) = 1
           /\ stderr[1].kind = "Missing"
           /\ stderr[1].file \in AllFiles \ existing

\* The run has aborted with several files missing.
C10_Witness ==
    /\ pc = "failed"
    /\ exitCode = 1
    /\ Cardinality(AllFiles \ existing) >= 2
    /\ Len(stderr) = 1

\* ------------------------------------------------------------------------
\* C2 (as stated): with either setting of the flag, every station that is
\* the resolved station of a stop_times row whose trip and stop resolve is
\* in the output, and no id is in the output twice.
C2_AsStated ==
    Finished =>
      /\ NoDuplicateIds
      /\ \A k \in DOMAIN stopTimesRead :
           (TripResolves(stopTimesRead[k]) /\ StopResolves(stopTimesRead[k]))
           => stopToStation[stopTimesRead[k].stop_id] \in OutputIds

\* C2 (amended): every station that is the resolved station of a stop_times
\* row whose trip and stop resolve and which the subway-only filter does not
\* skip is in the output, and no id is in the output twice.
C2_Completeness ==
    Finished =>
      /\ NoDuplicateIds
      /\ \A k \in DOMAIN stopTimesRead :
           ( /\ TripResolves(stopTimesRead[k])
             /\ StopResolves(stopTimesRead[k])
             /\ ~SkippedByFilter(stopTimesRead[k]) )
           => stopToStation[stopTimesRead[k].stop_id] \in OutputIds

\* With the filter on, two rows that are not skipped visit the same station,
\* which the output lists once.
C2_Witness ==
    /\ pc = "done"
    /\ ONLY_SUBWAY
    /\ \E k1 \in DOMAIN stopTimesRead, k2 \in DOMAIN stopTimesRead :
         /\ k1 # k2
         /\ TripResolves(stopTimesRead[k1]) /\ StopResolves(stopTimesRead[k1])
         /\ TripResolves(stopTimesRead[k2]) /\ StopResolves(stopTimesRead[k2])
         /\ ~SkippedByFilter(stopTimesRead[k1])
         /\ ~SkippedByFilter(stopTimesRead[k2])
         /\ stopToStation[stopTimesRead[k1].stop_id]
              = stopToStation[stopTimesRead[k2].stop_id]
    /\ Len(stations) = 1

\* ------------------------------------------------------------------------
\* C7: a stop_times row whose trip_id is not in the trip index adds nothing
\* to any route set and does not end the run: the accumulator, the array
\* built from it and the file written are those of the run over the table
\* without that row.
C7_OrphanTolerance ==
    /\ pc # "failed"
    /\ \A i \in DOMAIN stopTimesRead :
         ~Has(tripToRoute, stopTimesRead[i].trip_id) =>
           LET a == Aggregate(RemoveAt(stopTimesRead, i), tripToRoute,
                              stopToStation, routeMap, ONLY_SUBWAY)
               out == Assemble(a.stationRoutes, stationName, routeMap)
           IN  /\ stationRoutes = a.stationRoutes
               /\ Finished => stations = out
               /\ pc = "done" => (outFile = <<out>> /\ exitCode = 0)

\* A finished run with an orphan row at a known stop next to a valid row.
C7_Witness ==
    /\ pc = "done"
    /\ stations # <<>>
    /\ \E i \in DOMAIN stopTimesRead :
         /\ stopTimesRead[i].trip_id # ""
         /\ ~Has(tripToRoute, stopTimesRead[i].trip_id)
         /\ StopResolves(stopTimesRead[i])

\* ------------------------------------------------------------------------
\* C8: with the filter on, no route of known route_type other than "1" is in
\* any route set, while the route of every row whose trip and stop resolve
\* is in the set of the row's station when its route_type is blank or it is
\* not in the catalog; with the filter off this holds of every such row.
C8_SubwayFilter ==
    /\ ONLY_SUBWAY =>
         \A i \in DOMAIN stationRoutes :
           \A rid \in Range(stationRoutes[i].routeIds) : ~KnownNonSubway(rid)
    /\ \A k \in DOMAIN stopTimesRead :
         ( /\ TripResolves(stopTimesRead[k])
           /\ StopResolves(stopTimesRead[k])
           /\ (~ONLY_SUBWAY \/ ~KnownNonSubway(tripToRoute[stopTimesRead[k].trip_id])) )
         => tripToRoute[stopTimesRead[k].trip_id]
              \in RoutesAt(stopToStation[stopTimesRead[k].stop_id])

\* With the filter on: a row of a route of type "3" was skipped, and a row of
\* a route of blank type was inserted.
C8_Witness ==
    /\ ONLY_SUBWAY
    /\ \E k1 \in DOMAIN stopTimesRead, k2 \in DOMAIN stopTimesRead :
         /\ TripResolves(stopTimesRead[k1]) /\ StopResolves(stopTimesRead[k1])
         /\ KnownNonSubway(tripToRoute[stopTimesRead[k1].trip_id])
         /\ TripResolves(stopTimesRead[k2]) /\ StopResolves(stopTimesRead[k2])
         /\ Has(routeMap, tripToRoute[stopTimesRead[k2].trip_id])
         /\ routeMap[tripToRoute[stopTimesRead[k2].trip_id]].routeType = ""
         /\ tripToRoute[stopTimesRead[k2].trip_id]
              \in RoutesAt(stopToStation[stopTimesRead[k2].stop_id])

\* ------------------------------------------------------------------------
\* C4: no station of the output has a repeated value in its lines, also
\* when several route ids of the station have the same short code.
C4_NoDuplicateLines ==
    Finished =>
      \A r \in DOMAIN stations :
        \A i \in DOMAIN stations[r].lines, j \in DOMAIN stations[r].lines :
          stations[r].lines[i] = stations[r].lines[j] => i = j

\* Three route ids of one station have the same short code, listed once.
C4_Witness ==
    /\ pc = "done"
    /\ \E i \in DOMAIN stationRoutes :
         /\ {"Q", "A", "a"} \subseteq Range(stationRoutes[i].routeIds)
         /\ \A rid \in {"Q", "A", "a"} : ShortCode(routeMap, rid) = "A"
    /\ \E r \in DOMAIN stations : "A" \in Range(stations[r].lines)

C6_StationsSorted ==
    Finished =>
      \A r \in 1..(Len(stations) - 1) :
        LocaleCompare(stations[r].name, stations[r + 1].name, FALSE) <= 0

\* Three stations come out in an order that is neither the order of their
\* first visit nor the order of their ids, a lower-case name between an id
\* and an upper-case one.
C6_Witness ==
    /\ pc = "done"
    /\ Len(stationRoutes) = 3
    /\ <<stationRoutes[1].id, stationRoutes[2].id, stationRoutes[3].id>>
         = <<"101", "20", "101N">>
    /\ <<stations[1].name, stations[2].name, stations[3].name>>
         = <<"20", "Astor Pl", "grand ave">>

\* ------------------------------------------------------------------------
\* C11: the output file is written at most once, only by a run that has
\* finished, and what is written is the array assembled from the pass over
\* every stop_times row read; a run that has failed (missing file or stream
\* error) has written nothing.
C11_NoPartialOutput ==
    /\ Len(outFile) <= 1
    /\ outFile # <<>> =>
         /\ pc = "done" /\ exitCode = 0
         /\ outFile = <<stations>>
         /\ stations = Assemble(Aggregate(stopTimesRead, tripToRoute, stopToStation,
                                          routeMap, ONLY_SUBWAY).stationRoutes,
                                stationName, routeMap)
    /\ pc = "failed" => outFile = <<>> /\ exitCode = 1

\* A stream error in the middle of stop_times.txt, after a route was put
\* into a station's set: nothing was written.
C11_Witness ==
    /\ pc = "failed"
    /\ stderr = <<[kind |-> "Error", file |-> ""]>>
    /\ stopTimesRead # <<>>
    /\ stationRoutes # <<>>
    /\ outFile = <<>>

\* C12: the stage of the run only moves forward along LOADING_REFERENCE_TABLES,
\* AGGREGATING, ASSEMBLING, DONE, or from the first two to FAILED; an error
\* reported in the loading stage ends the run in FAILED at once, nothing of
\* the aggregation having happened; no step leaves DONE or FAILED.
C12_Staging ==
    [][ /\ Stage(pc') # Stage(pc) => <<Stage(pc), Stage(pc')>> \in StageSteps
        /\ Stage(pc) \notin {"DONE", "FAILED"}
        /\ Stage(pc) = "LOADING_REFERENCE_TABLES" =>
             /\ AggregationNotStarted
             /\ Len(stderr') > Len(stderr) =>
                  Stage(pc') = "FAILED" /\ AggregationNotStarted' ]_vars

\* The read stream of routes.txt failed after a row: the run has ended in
\* FAILED and no stop_times row was looked at.
C12_Witness ==
    /\ pc = "failed"
    /\ lastRow \in RunRouteRows
    /\ stopsRead # <<>>
    /\ AggregationNotStarted

\* C13: a finished run over the stops table <<101 "Grand Ave", 101N with
\* parent 101>> (the child of any name), a catalog holding route Q with short
\* code Q which the subway-only filter does not skip (the scenario gives no
\* route_type), trip t1 on route Q and the single stop_times row (t1, 101N) has
\* written exactly <<[id 101, name Grand Ave, lines <<Q>>]>>.
C13_Scenario ==
    ( /\ pc = "done"
      /\ \E n \in StopNames \cup {""} :
           stopsRead = <<StopRow("101", "Grand Ave", ""), StopRow("101N", n, "101")>>
      /\ DOMAIN routeMap = {"Q"}
      /\ routeMap["Q"].shortName = "Q"
      /\ ~(ONLY_SUBWAY /\ KnownNonSubway("Q"))
      /\ tripToRoute = ("t1" :> "Q")
      /\ stopTimesRead = <<[trip_id |-> "t1", stop_id |-> "101N"]>> )
    => outFile = << <<[id |-> "101", name |-> "Grand Ave", lines |-> <<"Q">>]>> >>

\* The run of the scenario with the flag --only-subway, finished.
C13_Witness ==
    /\ pc = "done"
    /\ ONLY_SUBWAY
    /\ stopsRead = <<StopRow("101", "Grand Ave", ""), StopRow("101N", "", "101")>>
    /\ routeMap = ("Q" :> [shortName |-> "Q", routeType |-> ""])
    /\ tripToRoute = ("t1" :> "Q")
    /\ stopTimesRead = <<[trip_id |-> "t1", stop_id |-> "101N"]>>
    /\ rows = 1
    /\ outFile = << <<[id |-> "101", name |-> "Grand Ave", lines |-> <<"Q">>]>> >>

\* C15: while the reference tables are loaded no stop_times row has been
\* processed, a stop_times row is processed only at buildStationLines, and
\* from there on no step changes stopToStation, stationName, routeMap or
\* tripToRoute.
C15_Barrier ==
    /\ [](Stage(pc) = "LOADING_REFERENCE_TABLES" => AggregationNotStarted)
    /\ [][ /\ stopTimesRead' # stopTimesRead => pc = "buildStationLines"
          /\ Stage(pc) # "LOADING_REFERENCE_TABLES" => UNCHANGED indices ]_vars

\* The pass is under way over the three loaded indices.
C15_Witness ==
    /\ pc = "buildStationLines"
    /\ stopTimesRead # <<>>
    /\ stopToStation # EmptyMap
    /\ routeMap # EmptyMap
    /\ tripToRoute # EmptyMap

\* C16: a row of stops.txt sets the name of its station exactly when the
\* station has no name yet or the row is parent-less with a non-empty name,
\* and changes no other name; so at any point of the scan a station with a
\* named station row carries the name of the last such row, whatever child
\* rows came before or after, and a station without one carries the name of
\* the first row seen for it.
C16_NameRule ==
    /\ [][ stopsRead' # stopsRead =>
            LET r == lastRow'
                S == StationOfRow(r)
            IN  IF r.stop_id # "" /\ ( \/ S \notin DOMAIN stationName
                                      \/ (r.parent_station = "" /\ r.stop_name # "") )
                THEN stationName' = MapSet(stationName, S, r.stop_name)
                ELSE stationName' = stationName ]_vars
    /\ [](/\ DOMAIN stationName = {S \in StopIds \cup ParentIds : RowsOfStation(S) # {}}
          /\ \A S \in DOMAIN stationName :
               stationName[S] = IF NamedStationRows(S) # {}
                                THEN stopsRead[Max(NamedStationRows(S))].stop_name
                                ELSE stopsRead[Min(RowsOfStation(S))].stop_name)

\* A named child row came first and supplied the name, then the station
\* row replaced it.
C16_Witness ==
    /\ pc = "loadRoutes"
    /\ stopsRead = <<StopRow("101N", "Uptown", "101"), StopRow("101", "Grand Ave", "")>>
    /\ stationName = ("101" :> "Grand Ave")

\* C17: the keys of stopToStation are exactly the non-empty stop_ids read,
\* and each stop is mapped to the parent_station of its (last) row when that
\* is non-empty and to itself otherwise, whether or not the parent has a row.
C17_StopToStation ==
    /\ DOMAIN stopToStation = {stopsRead[i].stop_id : i \in DOMAIN stopsRead} \ {""}
    /\ \A id \in DOMAIN stopToStation :
         LET r == stopsRead[Max(RowsWithId(id))]
         IN  stopToStation[id] = IF r.parent_station # "" THEN r.parent_station ELSE id

\* The scan is over; stop 101N names parent 101 and the parent-less stop
\* 101 is its own station.
C17_Witness ==
    /\ pc = "loadRoutes"
    /\ stopsRead = <<StopRow("101N", "Uptown", "101"), StopRow("101", "", "")>>
    /\ stopToStation = ("101N" :> "101") @@ ("101" :> "101")

\* C18: a row of routes.txt with a route_id puts into the catalog, under
\* that id, the entry whose short code is the row's route_short_name when
\* that is not blank and the route_id otherwise, and leaves the other entries
\* alone; a row without route_id leaves the catalog as it is; neither writes
\* an error nor ends the run; no entry of the catalog has a blank short code.
C18_RouteCatalog ==
    /\ [][ (pc = "loadRoutes" /\ pc' = "loadRoutes") =>
            LET r == lastRow'
            IN  /\ UNCHANGED <<stderr, exitCode>>
                /\ IF r.route_id # ""
                   THEN routeMap' =
                          MapSet(routeMap, r.route_id,
                                 [shortName |-> IF r.route_short_name # ""
                                                THEN r.route_short_name
                                                ELSE r.route_id,
                                  routeType |-> r.route_type])
                   ELSE routeMap' = routeMap ]_vars
    /\ [](\A id \in DOMAIN routeMap : id # "" /\ routeMap[id].shortName # "")

\* Route Q came without a short name and is in the catalog under code Q;
\* the row after it had no route_id and added nothing.
C18_Witness ==
    /\ pc = "loadRoutes"
    /\ lastRow = RouteRow("", "A", "1")
    /\ routeMap = ("Q" :> [shortName |-> "Q", routeType |-> "1"])
    /\ stderr = <<>>

\* C19: every stop_times row is counted in rows; a row lacking a field
\* changes nothing else; otherwise a row of unknown trip increments
\* missedTrips only, whatever its stop; otherwise a row of unknown stop
\* increments missedStops only; otherwise a row the filter skips changes
\* nothing else; otherwise the route is in the set of the row's station.  So
\* missedTrips is the number of rows read with both fields and an unknown
\* trip, and missedStops the number with both fields, a known trip and an
\* unknown stop.
C19_OrphanCounting ==
    /\ [][ stopTimesRead' # stopTimesRead =>
            LET r == lastRow'
                check == IF ~BothPresent(r) THEN 1
                         ELSE IF ~TripResolves(r) THEN 2
                         ELSE IF ~StopResolves(r) THEN 3
                         ELSE IF SkippedByFilter(r) THEN 4
                         ELSE 5
            IN  /\ rows' = rows + 1
                /\ missedTrips' = missedTrips + (IF check = 2 THEN 1 ELSE 0)
                /\ missedStops' = missedStops + (IF check = 3 THEN 1 ELSE 0)
                /\ check < 5 => stationRoutes' = stationRoutes
                /\ check = 5 =>
                     tripToRoute[r.trip_id]
                       \in RoutesIn(stationRoutes', stopToStation[r.stop_id])
          ]_vars
    /\ [](/\ rows = Len(stopTimesRead)
          /\ missedTrips =
               Cardinality({i \in DOMAIN stopTimesRead :
                              /\ BothPresent(stopTimesRead[i])
                              /\ ~TripResolves(stopTimesRead[i])})
          /\ missedStops =
               Cardinality({i \in DOMAIN stopTimesRead :
                              /\ BothPresent(stopTimesRead[i])
                              /\ TripResolves(stopTimesRead[i])
                              /\ ~StopResolves(stopTimesRead[i])})
          /\ missedTrips + missedStops <= rows)

\* The pass has seen a row whose trip and stop are both unknown, counted as
\* an orphan trip only, and a row of known trip and unknown stop.
C19_Witness ==
    /\ Finished
    /\ missedTrips = 1
    /\ missedStops = 1
    /\ \E i \in DOMAIN stopTimesRead :
         /\ BothPresent(stopTimesRead[i])
         /\ ~TripResolves(stopTimesRead[i])
         /\ ~StopResolves(stopTimesRead[i])
    /\ \E j \in DOMAIN stopTimesRead :
         TripResolves(stopTimesRead[j]) /\ BothPresent(stopTimesRead[j])
         /\ ~StopResolves(stopTimesRead[j])

\* C20: at the end of the run the number of rows of a table that lacked a
\* key field, when there were any, is among the numbers the run reports for
\* that table (stated for stops.txt and stop_times.txt, whose rows the
\* model keeps).
C20_AsStated ==
    Finished =>
      /\ MalformedStops > 0 => MalformedStops \in Numbers(LoadedStops(stopToStation))
      /\ MalformedStopTimes > 0 =>
           MalformedStopTimes \in Numbers(Summary(rows, missedTrips, missedStops))

\* C14: every record the pipeline wrote has exactly the fields id, name
\* and lines; every stations-ui array written has as many records as the
\* pipeline's output, the same ids, names and lines, and in each record
\* exactly the fields id, name, lines, borough, directions and displayName;
\* merging boroughs changes nothing but borough and keeps the order.
C14_StableSchema ==
    /\ [](\A w \in DOMAIN outFile : \A i \in DOMAIN outFile[w] :
            DOMAIN outFile[w][i] = {"id", "name", "lines"})
    /\ [](\A u \in DOMAIN uiFile :
            /\ Len(uiFile[u]) = Len(outFile[Len(outFile)])
            /\ Core(uiFile[u]) = Core(outFile[Len(outFile)])
            /\ \A i \in DOMAIN uiFile[u] :
                 DOMAIN uiFile[u][i] =
                   {"id", "name", "lines", "borough", "directions", "displayName"})
    /\ [][ \A csvRows \in CsvTables : MergeBoroughs(csvRows) =>
              LET old == uiFile[Len(uiFile)]
                  new == uiFile'[Len(uiFile')]
              IN  \A i \in DOMAIN old :
                    new[i] = [old[i] EXCEPT !.borough = new[i].borough] ]_vars

\* Two stations of the same normalised name went through both scripts:
\* station 101 got its platforms and its display name, and the merge, which
\* strips the quotes of the CSV's ids, gave both stations a borough.
C14_Witness ==
    /\ Len(uiFile) = 2
    /\ Len(outFile[1]) = 2
    /\ \E i \in DOMAIN uiFile[1] :
         /\ uiFile[1][i].id = "101"
         /\ uiFile[1][i].directions = <<[dir |-> "N", stopId |-> "101N"],
                                        [dir |-> "S", stopId |-> "101S"]>>
         /\ uiFile[1][i].displayName # Chars(uiFile[1][i].name)
         /\ uiFile[1][i].borough = "Unknown"
    /\ \E j \in DOMAIN uiFile[2] :
         uiFile[2][j].id = "101" /\ uiFile[2][j].borough = "Bronx"
    /\ \E j \in DOMAIN uiFile[2] :
         uiFile[2][j].id = "20" /\ uiFile[2][j].borough = "Queens"

\* C25: in every state of the pass each station of the accumulator is a
\* value of stopToStation and occurs once, each of its route ids is a value
\* of tripToRoute and occurs once, and no set is empty; a row keeps every
\* station and every route id that was there, and adds at most one station
\* and at most one route id.
C25_Accumulator ==
    /\ [](\A i \in DOMAIN stationRoutes :
            /\ stationRoutes[i].id \in Values(stopToStation)
            /\ \A j \in DOMAIN stationRoutes :
                 stationRoutes[j].id = stationRoutes[i].id => j = i
            /\ stationRoutes[i].routeIds # <<>>
            /\ Range(stationRoutes[i].routeIds) \subseteq Values(tripToRoute)
            /\ Cardinality(Range(stationRoutes[i].routeIds))
                 = Len(stationRoutes[i].routeIds))
    /\ [][ stopTimesRead' # stopTimesRead =>
            /\ Len(stationRoutes') - Len(stationRoutes) \in {0, 1}
            /\ Size(stationRoutes') - Size(stationRoutes) \in {0, 1}
            /\ \A i \in DOMAIN stationRoutes :
                 /\ stationRoutes'[i].id = stationRoutes[i].id
                 /\ Range(stationRoutes[i].routeIds)
                      \subseteq Range(stationRoutes'[i].routeIds) ]_vars

\* The pass has put two routes into the set of one station.
C25_Witness ==
    /\ pc = "buildStationLines"
    /\ Len(stationRoutes) = 1
    /\ Len(stationRoutes[1].routeIds) = 2
    /\ Len(stopTimesRead) = 2

\* C24: every record of a finished assembly has a non-empty name and a
\* non-empty list of non-empty lines; a station whose recorded name is empty
\* or missing, which is the case when its first row in stops.txt is unnamed
\* and none of its parent-less rows is named (named child rows coming later
\* included), has its id as name; and some stop_times row inserted a route
\* for the station of every record.
C24_NameAndLines ==
    Finished =>
      \A r \in DOMAIN stations :
        /\ stations[r].name # ""
        /\ stations[r].lines # <<>>
        /\ "" \notin Range(stations[r].lines)
        /\ Get(stationName, stations[r].id) = "" => stations[r].name = stations[r].id
        /\ LeftUnnamed(stations[r].id) => stations[r].name = stations[r].id
        /\ InsertingRows(stations[r].id) # {}
        /\ RoutesAt(stations[r].id) # {}

\* The station row is unnamed, a later child row is named, and the station has
\* been written with its id as name.
C24_Witness ==
    /\ pc = "done"
    /\ stopsRead = <<StopRow("101", "", ""), StopRow("101N", "Grand Ave", "101")>>
    /\ stationName = ("101" :> "")
    /\ outFile = << <<[id |-> "101", name |-> "101", lines |-> <<"Q">>]>> >>

\* C21: however the stop_times rows read are cut into contiguous shards, the
\* accumulators of the shards, each folded on its own and merged by set union
\* per station, give the mapping from station to route set of the single
\* sequential pass; on the accumulators of three consecutive pieces of the
\* rows the merge is commutative and associative.
C21_ShardIndependence ==
    /\ \A B \in SUBSET (1..Len(stopTimesRead) - 1) :
         MergeAll(Shards(stopTimesRead, B)) = AsMapping(stationRoutes)
    /\ \A i \in 0..Len(stopTimesRead) : \A j \in i..Len(stopTimesRead) :
         LET m1 == AsMapping(Fold(SubSeq(stopTimesRead, 1, i)))
             m2 == AsMapping(Fold(SubSeq(stopTimesRead, i + 1, j)))
             m3 == AsMapping(Fold(SubSeq(stopTimesRead, j + 1, Len(stopTimesRead))))
         IN  /\ Merge(m1, m2) = Merge(m2, m1)
             /\ Merge(m1, m3) = Merge(m3, m1)
             /\ Merge(m2, m3) = Merge(m3, m2)
             /\ Merge(Merge(m1, m2), m3) = Merge(m1, Merge(m2, m3))

\* The pass over four rows of one station, which can be cut into up to four
\* shards, has put four routes into the set of the station and has ended.
C21_Witness ==
    /\ pc = "writeFileSync"
    /\ Len(stopTimesRead) = 4
    /\ Len(stationRoutes) = 1
    /\ Len(stationRoutes[1].routeIds) = 4
    /\ Len(Shards(stopTimesRead, {1, 2, 3})) = 4

\* C23 (as stated): the array a finished assembly returns is the array it
\* returns for the stop_times rows in any other order; exchanges of two rows
\* generate every permutation.
C23_AsStated ==
    Finished =>
      \A i \in DOMAIN stopTimesRead, j \in DOMAIN stopTimesRead :
        OutputOf(Swap(stopTimesRead, i, j)) = stations

\* C22: with all four files present and no stream error, every run of the
\* pipeline over its finite tables comes to rest at done with exit code 0 and
\* the output file written once, and at no moment has the file been written
\* more than once.
C22_Termination ==
    /\ <>[](pc = "done" /\ exitCode = 0 /\ Len(outFile) = 1)
    /\ [](Len(outFile) <= 1)

\* A run that read rows of all four tables has ended with the file written.
C22_Witness ==
    /\ pc = "done"
    /\ exitCode = 0
    /\ Len(outFile) = 1
    /\ stopsRead # <<>>
    /\ stopTimesRead # <<>>
    /\ DOMAIN routeMap # {}
    /\ DOMAIN tripToRoute # {}

\* C26 (as stated): the departures of a response are sorted by ascending
\* timestamp, are of asked stops and of times not in the past, hold each
\* (route, stop, timestamp, trip) combination of the feeds at most once, and
\* when the list of allowed lines is not empty the route of every entry is
\* one of them, lines and routes compared as normalizeLine leaves them.
C26_AsStated ==
    response.status = 200 =>
      /\ SortedAskedFutureOnce
      /\ AllowedLines # <<>> =>
           \A i \in DOMAIN response.departures :
             response.departures[i].routeId \in NormalisedLines

\* C26 (amended): the same, the route of every entry being one of the
\* allowed lines when the list holds a line that is not blank.
C26_Departures ==
    response.status = 200 =>
      /\ SortedAskedFutureOnce
      /\ NormalisedLines \ {""} # {} =>
           \A i \in DOMAIN response.departures :
             response.departures[i].routeId \in NormalisedLines

\* Lines q asked at two stops, with the feed of trip t1 fetched twice over, a
\* trip of route B and a second trip of route Q at the same stop and time:
\* the response holds the updates of route Q in order of time, the repeated
\* one once and the one of trip t2 next to it.
C26_Witness ==
    /\ request.line = <<"q">>
    /\ request.stopId = <<"101N", "102S">>
    /\ request.feeds = << <<EntityQ1Again, EntityQ2>>, <<EntityQ1>> >>
    /\ response.status = 200
    /\ response.departures =
         << [routeId |-> "Q", stopId |-> "101N", timestamp |-> 100, etaMinutes |-> 0],
            [routeId |-> "Q", stopId |-> "101N", timestamp |-> 160, etaMinutes |-> 1],
            [routeId |-> "Q", stopId |-> "101N", timestamp |-> 160, etaMinutes |-> 1],
            [routeId |-> "Q", stopId |-> "102S", timestamp |-> 160, etaMinutes |-> 1],
            [routeId |-> "Q", stopId |-> "101N", timestamp |-> 220, etaMinutes |-> 2] >>

====
